---- MODULE Spec2Model ----
(***************************************************************************)
(* A model of the jackal calendar engine: the per-calendar occurrence      *)
(* index with its file watcher and reconciliation                          *)
(* (src/provider/ical/calendar.rs), the day splitting of occurrences       *)
(* (src/provider/mod.rs, src/provider/datetime.rs) and the Agenda with its *)
(* date-keyed occurrence cache (src/agenda.rs).                            *)
(*                                                                         *)
(* Time is counted in ticks; a calendar day has TicksPerDay ticks.  A      *)
(* DateTime<Tz> is a UTC tick together with the zone's offset (in ticks    *)
(* east of UTC); chrono orders and compares DateTime values by their UTC   *)
(* instant alone.  A NaiveDate is a day number, a NaiveDateTime a tick     *)
(* count without a zone.                                                   *)
(***************************************************************************)
EXTENDS Integers, Sequences, FiniteSets, TLC

\* ------------------------------------------------------------------ bounds
TicksPerDay == 2      \* ticks of one calendar day
MaxDay == 3           \* queries range over the dates 1..MaxDay
NumCals == 2          \* calendars owned by the Agenda
MaxInitFiles == 1     \* files on disk when the Agenda is built
MaxFsOps == 2         \* file system operations of a run
MaxQueries == 2       \* events_in calls of a run
MaxJumps == 1         \* jumps of the wall clock of a run
JumpDays == 400       \* days the wall clock advances in one jump
PeriodDays == 200     \* interval of the recurring fixture, in days

\* -------------------------------------------------------- program constants
WindowDays == 356     \* Duration::days(356) of the index window

Window == WindowDays * TicksPerDay
Cals == 1..NumCals

\* ------------------------------------------------------------ time values
\* NaiveDateTime::date
Date(naive) == naive \div TicksPerDay

\* DateTime<Tz>::date_naive : the date of the local time
DateNaive(utc, tz) == (utc + tz) \div TicksPerDay

\* tz.from_local_datetime(date.and_hms(0, 0, 0)) : local midnight as a UTC tick
\* (fixed offsets: earliest() and latest() coincide)
LocalMidnight(date, tz) == date * TicksPerDay - tz

\* ------------------------------------------------------------- TimeSpan
\* TimeSpan<Tz>, one record shape for the four variants:
\*   Allday     a = start date, z = end date or NoDate
\*   TimePoints a = begin tick, z = end tick
\*   Duration   a = begin tick, z = length in ticks
\*   Instant    a = the tick,   z = 0
NoDate == 0 - 1

Allday(date, enddate, tz) == [kind |-> "Allday", tz |-> tz, a |-> date, z |-> enddate]
TimePoints(b, e, tz) == [kind |-> "TimePoints", tz |-> tz, a |-> b, z |-> e]
DurationSpan(b, d, tz) == [kind |-> "Duration", tz |-> tz, a |-> b, z |-> d]
Instant(b, tz) == [kind |-> "Instant", tz |-> tz, a |-> b, z |-> 0]

\* TimeSpan::begin
Begin(ts) ==
  IF ts.kind = "Allday" THEN LocalMidnight(ts.a, ts.tz) ELSE ts.a

\* TimeSpan::end : an all-day span ends at 23:59:59 (the last tick) of its last day
End(ts) ==
  CASE ts.kind = "Allday" ->
         LocalMidnight(IF ts.z = NoDate THEN ts.a ELSE ts.z, ts.tz) + (TicksPerDay - 1)
    [] ts.kind = "TimePoints" -> ts.z
    [] ts.kind = "Duration" -> ts.a + ts.z
    [] OTHER -> ts.a

\* TimeSpan::num_days : the calendar days between the dates of begin and end
NumDays(ts) == DateNaive(End(ts), ts.tz) - DateNaive(Begin(ts), ts.tz) + 1

\* unroll() inside Occurrence::days : one slice per date from the date of `from`
\* to the date of `to`
RECURSIVE UnrollFrom(_, _, _, _)
UnrollFrom(date, from, to, tz) ==
  LET begin_date == DateNaive(from, tz)
      end_date == DateNaive(to, tz)
      slice == IF date = begin_date
                 THEN TimePoints(from, LocalMidnight(begin_date + 1, tz), tz)
                 ELSE IF date = end_date
                        THEN TimePoints(LocalMidnight(end_date, tz), to, tz)
                        ELSE Allday(date, NoDate, tz)
  IN IF date <= end_date THEN <<slice>> \o UnrollFrom(date + 1, from, to, tz) ELSE <<>>

Unroll(from, to, tz) == UnrollFrom(DateNaive(from, tz), from, to, tz)

\* the Allday arm of Occurrence::days : the dates from begin while date < end
RECURSIVE AlldayDays(_, _, _)
AlldayDays(date, e, tz) ==
  IF date < e THEN <<Allday(date, NoDate, tz)>> \o AlldayDays(date + 1, e, tz) ELSE <<>>

\* Occurrence::days
Days(ts) ==
  IF NumDays(ts) > 1
    THEN CASE ts.kind = "Allday" ->
                (IF ts.z # NoDate THEN AlldayDays(ts.a, ts.z, ts.tz)
                                  ELSE <<Allday(ts.a, NoDate, ts.tz)>>)
           [] ts.kind = "TimePoints" -> Unroll(ts.a, ts.z, ts.tz)
           [] ts.kind = "Duration" -> Unroll(ts.a, ts.a + ts.z, ts.tz)
           [] OTHER -> <<ts>>
    ELSE <<ts>>

\* ------------------------------------------------------------------ paths
\* A file of a calendar directory is named by stem and extension.  A path as
\* the watcher reports it is a name plus whether it is written in canonical
\* form (canon = FALSE: the directory is watched through a symbolic link).
Uuids == {"u1", "u2"}            \* the stems that parse as a UUID
ICAL_FILE_EXT == "ics"
Names == {[stem |-> "u1", ext |-> "ics"],
          [stem |-> "x", ext |-> "ics"],
          [stem |-> "x", ext |-> "tmp"]}
\* the names in use in the directory of calendar c: the first calendar uses
\* them all, the others only the UUID-named file
NamesOf(c) == IF c = 1 THEN Names ELSE {n \in Names : n.stem \in Uuids}
Paths == [name : Names, canon : BOOLEAN]

\* is_ical inside ical_watcher
is_ical(path) == path.name.ext = ICAL_FILE_EXT

\* uuid_from_path : the file stem parsed as a UUID; <<>> for None
uuid_from_path(path) ==
  IF path.name.stem \in Uuids THEN <<path.name.stem>> ELSE <<>>

\* ---------------------------------------------------------- file contents
\* What a file holds is written as the event its record parses to ("event"),
\* as a record that does not parse ("bad"), or the file is absent ("none").
\* period = 0: no RRULE; otherwise the interval in ticks of an open-ended rule.
NullSpan == Instant(0, 0)
NoFile == [kind |-> "none", uid |-> "", tz |-> 0, span |-> NullSpan, period |-> 0]
BadFile == [kind |-> "bad", uid |-> "", tz |-> 0, span |-> NullSpan, period |-> 0]
Record(uid, span, period) ==
  [kind |-> "event", uid |-> uid, tz |-> span.tz, span |-> span, period |-> period]

FirstDay == 1
\* the fixtures: a timed one-day event whose UID is no UUID, a timed event over
\* three days, an event in a zone one tick east of UTC whose local date is the
\* day after its UTC date, and an all-day event that recurs without end
Standup == Record("n1", Instant(FirstDay * TicksPerDay, 0), 0)
Retreat == Record("u1", TimePoints(FirstDay * TicksPerDay + (TicksPerDay - 1),
                                   (FirstDay + 2) * TicksPerDay, 0), 0)
LateCall == Record("u2", Instant(FirstDay * TicksPerDay + (TicksPerDay - 1), 1), 0)
Holiday == Record("u2", Allday(FirstDay + 1, NoDate, 0), PeriodDays * TicksPerDay)
ValidContents == {Standup, Retreat, LateCall, Holiday}
Contents == ValidContents \cup {BadFile}

\* ------------------------------------------------------------------ Event
\* Event { path, occurrence, ical, tz } : path is canonical
\* (std::fs::canonicalize at the end of Event::from_ical)
EventOf(content, name) ==
  [uid |-> content.uid, path |-> name, tz |-> content.tz,
   span |-> content.span, period |-> content.period]

\* Event::from_file : <<>> for Err (no such file, or a record that does not parse)
from_file(dir, name) ==
  IF dir[name].kind = "event" THEN <<EventOf(dir[name], name)>> ELSE <<>>

\* std::fs::canonicalize(&path).unwrap_or(path) : resolves the link only while
\* the file exists
canonicalize(dir, path) ==
  IF dir[path.name].kind # "none" THEN [path EXCEPT !.canon = TRUE] ELSE path

\* Event::uuid : the UID property parsed as a UUID; <<>> where
\* Uuid::parse_str(..).unwrap() panics
uuid(ev) == IF ev.uid \in Uuids THEN <<ev.uid>> ELSE <<>>

\* Event::matches
matches(ev, path) ==
  IF uuid_from_path(path) # <<>>
    THEN uuid(ev) = uuid_from_path(path)
    ELSE path.canon /\ ev.path = path.name

\* Event::matches panics: the path names a UUID and the UID of the event is none
matches_unwinds(ev, path) == uuid_from_path(path) # <<>> /\ uuid(ev) = <<>>

\* ------------------------------------------------------ occurrence rules
\* OccurrenceRule::iter / OccurrenceIter::next : the k-th start instant, <<>>
\* when the iterator is exhausted
NthStart(ev, k) ==
  IF ev.period = 0
    THEN (IF k = 0 THEN <<Begin(ev.span)>> ELSE <<>>)
    ELSE <<Begin(ev.span) + k * ev.period>>

\* a variant whose window reaches twice as far into the future
RECURSIVE TakeWhile_wide(_, _, _)
TakeWhile_wide(ev, k, now) ==
  LET dt == NthStart(ev, k)
  IN IF dt = <<>> \/ dt[1] > now + 2 * Window
       THEN <<>>
       ELSE <<dt[1]>> \o TakeWhile_wide(ev, k + 1, now)

\* .take_while(|dt| dt <= &(now + Duration::days(356)))
RECURSIVE TakeWhile(_, _, _)
TakeWhile(ev, k, now) ==
  LET dt == NthStart(ev, k)
  IN IF dt = <<>> \/ dt[1] > now + Window
       THEN <<>>
       ELSE <<dt[1]>> \o TakeWhile(ev, k + 1, now)

\* .skip_while(|dt| dt < &(now - Duration::days(356)))
RECURSIVE SkipWhile(_, _, _)
SkipWhile(ev, k, now) ==
  LET dt == NthStart(ev, k)
  IN IF dt = <<>> THEN <<>>
     ELSE IF dt[1] < now - Window THEN SkipWhile(ev, k + 1, now)
     ELSE TakeWhile(ev, k, now)

\* the start instants of an event that the window of `now` admits
Windowed(ev, now) == SkipWhile(ev, 0, now)

\* --------------------------------------------------------------- the index
\* Calendar.events : BTreeMap<DateTime<Tz>, Vec<Rc<Event>>>, a function from
\* the UTC instant to the sequence of events pushed there
EmptyIndex == [k \in {} |-> <<>>]

\* a variant that replaces the bucket: events.insert(dt, vec![..])
Push_replacing(map, key, val) ==
  [k \in DOMAIN map \cup {key} |-> IF k = key THEN <<val>> ELSE map[k]]

\* events.entry(dt).or_default().push(..)
Push(map, key, val) ==
  IF key \in DOMAIN map
    THEN [map EXCEPT ![key] = Append(@, val)]
    ELSE [k \in DOMAIN map \cup {key} |-> IF k = key THEN <<val>> ELSE map[k]]

\* .for_each(|dt| events.entry(dt).or_default().push(Rc::clone(&event)))
RECURSIVE InsertAll(_, _, _)
InsertAll(events, dts, ev) ==
  IF dts = <<>> THEN events
  ELSE InsertAll(Push(events, Head(dts), ev), Tail(dts), ev)

\* a variant that leaves the buckets it emptied in the index
remove_for_path_keeping(events, dir, path) ==
  LET p == canonicalize(dir, path)
      Keep(e) == ~matches(e, p)
  IN [k \in DOMAIN events |-> SelectSeq(events[k], Keep)]

\* remove_for_path inside Calendar::process_external_modifications
remove_for_path(events, dir, path) ==
  LET p == canonicalize(dir, path)
      Keep(e) == ~matches(e, p)
      kept == [k \in DOMAIN events |-> SelectSeq(events[k], Keep)]
  IN [k \in {i \in DOMAIN events : kept[i] # <<>>} |-> kept[k]]

\* remove_for_path panics: retain calls matches on every event of the index
remove_unwinds(events, dir, path) ==
  \E k \in DOMAIN events : \E i \in 1..Len(events[k]) :
    matches_unwinds(events[k][i], canonicalize(dir, path))

\* add_for_path inside Calendar::process_external_modifications
add_for_path(events, dir, path, now) ==
  LET parsed == from_file(dir, path.name)
  IN IF parsed = <<>> THEN events
     ELSE InsertAll(events, Windowed(parsed[1], now), parsed[1])

\* a variant whose Modify arm adds first and removes afterwards
ApplyModification_swapped(events, dir, m, now) ==
  CASE m.op = "Create" -> add_for_path(events, dir, m.path, now)
    [] m.op = "Remove" -> remove_for_path(events, dir, m.path)
    [] OTHER -> remove_for_path(add_for_path(events, dir, m.path, now), dir, m.path)

\* one arm of the match in Calendar::process_external_modifications
ApplyModification(events, dir, m, now) ==
  CASE m.op = "Create" -> add_for_path(events, dir, m.path, now)
    [] m.op = "Remove" -> remove_for_path(events, dir, m.path)
    [] OTHER -> add_for_path(remove_for_path(events, dir, m.path), dir, m.path, now)

\* the arm panics
Unwinds(events, dir, m) == m.op # "Create" /\ remove_unwinds(events, dir, m.path)

\* the loop over the directory in Calendar::from_dir, in the order read_dir yields
RECURSIVE LoadFiles(_, _, _, _)
LoadFiles(events, dir, order, now) ==
  IF order = <<>> THEN events
  ELSE LET parsed == from_file(dir, Head(order))
       IN LoadFiles(IF parsed = <<>> THEN events
                    ELSE InsertAll(events, Windowed(parsed[1], now), parsed[1]),
                    dir, Tail(order), now)

\* the timezone Calendar::from_dir picks: it reads the first entry of `events`
\* before any file is loaded into it
from_dir_tz(events) ==
  IF DOMAIN events # {}
    THEN events[CHOOSE k \in DOMAIN events : \A j \in DOMAIN events : k <= j][1].tz
    ELSE 0

\* ------------------------------------------------------------ the watcher
\* notify::Event : kind and paths
RawKinds == {"CreateFile", "CreateFolder", "RemoveFile", "RenameFrom", "RenameTo",
             "RenameBoth", "ModifyData", "Access"}

Mod(op, path) == <<[op |-> op, path |-> path]>>

\* a variant that takes a rename onto a matching name for a new file
relevant_modification_creating(event) ==
  CASE event.kind = "CreateFile" /\ is_ical(event.paths[1]) ->
         Mod("Create", event.paths[1])
    [] event.kind \in {"RemoveFile", "RenameFrom"} /\ is_ical(event.paths[1]) ->
         Mod("Remove", event.paths[1])
    [] event.kind \in {"ModifyData", "RenameTo"} /\ is_ical(event.paths[1]) ->
         Mod("Modify", event.paths[1])
    [] event.kind = "RenameBoth" ->
         (IF is_ical(event.paths[1]) THEN Mod("Remove", event.paths[1])
          ELSE IF is_ical(event.paths[2]) THEN Mod("Create", event.paths[2])
          ELSE <<>>)
    [] OTHER -> <<>>

\* relevant_modification inside ical_watcher : <<>> for None
relevant_modification(event) ==
  CASE event.kind = "CreateFile" /\ is_ical(event.paths[1]) ->
         Mod("Create", event.paths[1])
    [] event.kind \in {"RemoveFile", "RenameFrom"} /\ is_ical(event.paths[1]) ->
         Mod("Remove", event.paths[1])
    [] event.kind \in {"ModifyData", "RenameTo"} /\ is_ical(event.paths[1]) ->
         Mod("Modify", event.paths[1])
    [] event.kind = "RenameBoth" ->
         (IF is_ical(event.paths[1]) THEN Mod("Remove", event.paths[1])
          ELSE IF is_ical(event.paths[2]) THEN Mod("Modify", event.paths[2])
          ELSE <<>>)
    [] OTHER -> <<>>

\* ------------------------------------------------------- calendar queries
\* the keys of a map in ascending order (BTreeMap iteration order)
RECURSIVE Ascending(_)
Ascending(S) ==
  IF S = {} THEN <<>>
  ELSE LET m == CHOOSE x \in S : \A y \in S : x <= y
       IN <<m>> \o Ascending(S \ {m})

\* .flat_map(|(e, v)| v.iter().map(move |ev| (e, ev))) over the keys in order
RECURSIVE FlatEntries(_, _)
FlatEntries(map, keys) ==
  IF keys = <<>> THEN <<>>
  ELSE [i \in 1..Len(map[Head(keys)]) |-> <<Head(keys), map[Head(keys)][i]>>]
         \o FlatEntries(map, Tail(keys))

\* Calendar::filter_events for a filter begin..end (begin included, end
\* excluded): the index entries whose instant lies in the range, the naive
\* bounds read in the calendar's timezone
filter_events(index, caltz, begin, end) ==
  LET real_begin == begin - caltz
      real_end == end - caltz
  IN FlatEntries(index, Ascending({k \in DOMAIN index : real_begin <= k /\ k < real_end}))

\* the span of the occurrence of an event that starts at instant dt: the
\* event's span moved to begin at dt
SpanAt(span, dt) ==
  CASE span.kind = "Allday" ->
         LET d == DateNaive(dt, span.tz)
         IN Allday(d, IF span.z = NoDate THEN NoDate ELSE span.z + (d - span.a), span.tz)
    [] span.kind = "TimePoints" -> TimePoints(dt, dt + (span.z - span.a), span.tz)
    [] span.kind = "Duration" -> DurationSpan(dt, span.z, span.tz)
    [] OTHER -> Instant(dt, span.tz)

\* Occurrence { span, event } of one index entry; the event is held by its UID
OccurrenceOf(entry) == [uid |-> entry[2].uid, span |-> SpanAt(entry[2].span, entry[1])]

\* Calendarlike::event_by_uid : the first event of the index with this UID
event_by_uid(index, uid) ==
  LET all == FlatEntries(index, Ascending(DOMAIN index))
      hits == SelectSeq(all, LAMBDA en : en[2].uid = uid)
  IN IF hits = <<>> THEN <<>> ELSE <<hits[1][2]>>

\* ------------------------------------------------------- OccurrenceCache
\* OccurrenceCache.occurrences : BTreeMap<NaiveDate, Vec<OwningCacheLine>>
EmptyCache == [d \in {} |-> <<>>]

\* the inner loop of OccurrenceCache::add : one line per day of the occurrence,
\* filed under the date of the day's begin
RECURSIVE AddDays(_, _, _)
AddDays(cache, uid, days) ==
  IF days = <<>> THEN cache
  ELSE LET day == Head(days)
       IN AddDays(Push(cache, DateNaive(Begin(day), day.tz), [uid |-> uid, span |-> day]),
                  uid, Tail(days))

\* OccurrenceCache::add
RECURSIVE CacheAdd(_, _)
CacheAdd(cache, occs) ==
  IF occs = <<>> THEN cache
  ELSE CacheAdd(AddDays(cache, Head(occs).uid, Days(Head(occs).span)), Tail(occs))

\* OccurrenceCache::contains
CacheContains(cache, date) == date \in DOMAIN cache

\* OccurrenceCache::remove
CacheRemove(cache, date) == [d \in DOMAIN cache \ {date} |-> cache[d]]

\* OccurrenceCache::fetch_range(lo..=hi)
RECURSIVE FlatLines(_, _)
FlatLines(cache, keys) ==
  IF keys = <<>> THEN <<>> ELSE cache[Head(keys)] \o FlatLines(cache, Tail(keys))

fetch_range(cache, lo, hi) ==
  FlatLines(cache, Ascending({d \in DOMAIN cache : lo <= d /\ d <= hi}))

\* ------------------------------------------------------------------ Agenda
\* self.calendars.values().flat_map(|calendar| calendar.filter_events(begin..end))
RECURSIVE AllCalendars(_, _, _, _, _)
AllCalendars(c, idx, tzs, begin, end) ==
  IF c > NumCals THEN <<>>
  ELSE LET found == filter_events(idx[c], tzs[c], begin, end)
       IN [i \in 1..Len(found) |-> OccurrenceOf(found[i])]
            \o AllCalendars(c + 1, idx, tzs, begin, end)

\* Agenda::add_to_cache
add_to_cache(cache, idx, tzs, date) ==
  LET begin == date * TicksPerDay
      end == (date + 1) * TicksPerDay
      cleared == IF CacheContains(cache, date) THEN CacheRemove(cache, date) ELSE cache
  IN CacheAdd(cleared, AllCalendars(1, idx, tzs, begin, end))

\* a variant that searches the calendars from the last name to the first
RECURSIVE FindFrom_reversed(_, _, _)
FindFrom_reversed(c, idx, uid) ==
  IF c > NumCals THEN <<>>
  ELSE IF event_by_uid(idx[NumCals + 1 - c], uid) # <<>>
    THEN event_by_uid(idx[NumCals + 1 - c], uid)
  ELSE FindFrom_reversed(c + 1, idx, uid)

\* Agenda::find_by_uid : find_map over the calendars in the order of their names
RECURSIVE FindFrom(_, _, _)
FindFrom(c, idx, uid) ==
  IF c > NumCals THEN <<>>
  ELSE IF event_by_uid(idx[c], uid) # <<>> THEN event_by_uid(idx[c], uid)
  ELSE FindFrom(c + 1, idx, uid)

find_by_uid(idx, uid) == FindFrom(1, idx, uid)

\* a range of NaiveDateTime: each bound Included, Excluded or Unbounded
Bounded_any(kind) == kind \in {"Included", "Excluded", "Unbounded"}
Bounded(kind) == kind \in {"Included", "Excluded"}
RangeOf(sk, s, ek, e) == [sk |-> sk, s |-> s, ek |-> ek, e |-> e]

\* the population loop of Agenda::fetch_maybe_cached : the days from `day` to
\* end_date that the cache does not contain are added, each test made when
\* the loop reaches the day.  Yields the cache and the dates it populated.
RECURSIVE Populate(_, _, _, _, _)
Populate(acc, idx, tzs, day, end_date) ==
  IF day > end_date THEN acc
  ELSE IF CacheContains(acc.cache, day)
         THEN Populate(acc, idx, tzs, day + 1, end_date)
         ELSE Populate([cache |-> add_to_cache(acc.cache, idx, tzs, day),
                        populated |-> Append(acc.populated, day)],
                       idx, tzs, day + 1, end_date)

\* Agenda::fetch_maybe_cached for a range with both bounds: the cache after the
\* population, the dates populated, the lines fetched, and whether every line
\* resolved to an event (find_by_uid(uid).unwrap())
fetch_maybe_cached(cache, idx, tzs, range) ==
  LET begin_date == Date(range.s)
      end_date == Date(range.e)
      after == Populate([cache |-> cache, populated |-> <<>>], idx, tzs,
                        begin_date, end_date)
      lines == fetch_range(after.cache, begin_date, end_date)
  IN [cache |-> after.cache, populated |-> after.populated, lines |-> lines,
      resolved |-> \A i \in 1..Len(lines) : find_by_uid(idx, lines[i].uid) # <<>>]

\* ------------------------------------------------------------------ state
VARIABLES
  pc,                     \* owning thread: "start", "idle", "pem" (inside
                          \* process_external_modifications) or "crashed"
  pemCal,                 \* the calendar process_external_modifications is at
  viaLink,                \* the calendar directories are reached through a link
  now,                    \* Utc::now(), in ticks
  files,                  \* the directory of each calendar: name -> content
  inflight,               \* raw notifications not yet handed to the watcher callback
  holding,                \* watcher callback between its two sends
  pending_modifications,  \* Calendar.pending_modifications, the queue
  event_sink,             \* ExternalModification signals sent on event_sink
  events,                 \* Calendar.events, the index of each calendar
  tz,                     \* Calendar.tz
  occurrence_cache,       \* Agenda.occurrence_cache
  last,                   \* the last call of the owning thread and its outcome
  applied,                \* the last item process_external_modifications applied
  fsOps, queries, jumps   \* what is left of each budget of the run

vars == <<pc, pemCal, viaLink, now, files, inflight, holding, pending_modifications,
          event_sink, events, tz, occurrence_cache, last, applied, fsOps, queries,
          jumps>>

NoRange == RangeOf("Unbounded", 0, "Unbounded", 0)
Call(op, range, status, out, populated) ==
  [op |-> op, range |-> range, status |-> status, out |-> out, populated |-> populated]

\* no item: the value of `applied` before the first item of a call, and of
\* its field prev for the first item of a calendar
NoMod == [op |-> "None", path |-> [name |-> [stem |-> "", ext |-> ""], canon |-> TRUE]]
NoneApplied == [cal |-> 0, m |-> NoMod, prev |-> NoMod, had |-> FALSE]

\* the events of an index, bucket after bucket
Entries(index) ==
  LET all == FlatEntries(index, Ascending(DOMAIN index))
  IN [i \in 1..Len(all) |-> all[i][2]]

\* the index holds an event that was loaded from the file of this name
Indexed(index, name) == \E i \in 1..Len(Entries(index)) : Entries(index)[i].path = name

\* the directories the Agenda may be built from: at most MaxInitFiles files
EmptyDisk == [c \in Cals |-> [n \in Names |-> NoFile]]
RECURSIVE Disks(_)
Disks(n) ==
  IF n = 0 THEN {EmptyDisk}
  ELSE Disks(n - 1) \cup
       UNION {{[d EXCEPT ![c][nm] = ct] : nm \in NamesOf(c), ct \in Contents} :
                d \in Disks(n - 1), c \in Cals}

\* the orders in which read_dir may yield the names of a directory
Orders == {o \in [1..Cardinality(Names) -> Names] : \A i, j \in DOMAIN o : o[i] = o[j] => i = j}

Today == FirstDay + 1

\* the runs explored: file changes alone, queries around one file change
\* less, and clock jumps around one file change less
Budgets == {[fs |-> MaxFsOps, q |-> 0, j |-> 0],
            [fs |-> MaxFsOps - 1, q |-> MaxQueries, j |-> 0],
            [fs |-> MaxFsOps - 1, q |-> 0, j |-> MaxJumps]}

Init ==
  /\ pc = "start"
  /\ pemCal = 1
  /\ viaLink \in BOOLEAN
  /\ now = Today * TicksPerDay
  /\ files \in Disks(MaxInitFiles)
  /\ inflight = [c \in Cals |-> <<>>]
  /\ holding = [c \in Cals |-> <<>>]
  /\ pending_modifications = [c \in Cals |-> <<>>]
  /\ event_sink = 0
  /\ events = [c \in Cals |-> EmptyIndex]
  /\ tz = [c \in Cals |-> 0]
  /\ occurrence_cache = EmptyCache
  /\ last = Call("none", NoRange, "ok", <<>>, <<>>)
  /\ applied = NoneApplied
  /\ \E b \in Budgets : fsOps = b.fs /\ queries = b.q /\ jumps = b.j

\* ------------------------------------------------------------ construction
\* Agenda::from_config : Calendar::from_dir for every calendar, which loads the
\* files of the directory into the index
FromConfig ==
  /\ pc = "start"
  /\ \E order \in [Cals -> Orders] :
       events' = [c \in Cals |-> LoadFiles(EmptyIndex, files[c], order[c], now)]
  /\ tz' = [c \in Cals |-> from_dir_tz(EmptyIndex)]
  /\ pc' = "idle"
  /\ last' = Call("from_config", NoRange, "ok", <<>>, <<>>)
  /\ UNCHANGED <<applied, pemCal, viaLink, now, files, inflight, holding, pending_modifications,
                 event_sink, occurrence_cache, fsOps, queries, jumps>>

\* ------------------------------------------------------------- environment
Running == pc \in {"idle", "pem"}

\* the path of a name as the watcher reports it
Reported(name) == [name |-> name, canon |-> ~viaLink]

Notify(c, kind, paths) ==
  /\ inflight' = [inflight EXCEPT ![c] = Append(@, [kind |-> kind, paths |-> paths])]
  /\ fsOps' = fsOps - 1
  /\ UNCHANGED <<pc, pemCal, viaLink, now, holding, pending_modifications, event_sink,
                 events, tz, occurrence_cache, last, applied, queries, jumps>>

\* a file is created in the directory
FsCreate(c, n, ct) ==
  /\ Running /\ fsOps > 0
  /\ files[c][n].kind = "none"
  /\ files' = [files EXCEPT ![c][n] = ct]
  /\ Notify(c, "CreateFile", <<Reported(n)>>)

\* the content of a file is rewritten
FsWrite(c, n, ct) ==
  /\ Running /\ fsOps > 0
  /\ files[c][n].kind # "none" /\ files[c][n] # ct
  /\ files' = [files EXCEPT ![c][n] = ct]
  /\ Notify(c, "ModifyData", <<Reported(n)>>)

\* a file is deleted
FsDelete(c, n) ==
  /\ Running /\ fsOps > 0
  /\ files[c][n].kind # "none"
  /\ files' = [files EXCEPT ![c][n] = NoFile]
  /\ Notify(c, "RemoveFile", <<Reported(n)>>)

\* a file is renamed inside the directory
FsRename(c, old, new) ==
  /\ Running /\ fsOps > 0
  /\ old # new /\ files[c][old].kind # "none"
  /\ files' = [files EXCEPT ![c][new] = files[c][old], ![c][old] = NoFile]
  /\ Notify(c, "RenameBoth", <<Reported(old), Reported(new)>>)

\* the wall clock advances
AdvanceClock ==
  /\ Running /\ jumps > 0
  /\ now' = now + JumpDays * TicksPerDay
  /\ jumps' = jumps - 1
  /\ UNCHANGED <<pc, pemCal, viaLink, files, inflight, holding, pending_modifications,
                 event_sink, events, tz, occurrence_cache, last, applied, fsOps, queries>>

\* ------------------------------------------------------- the watcher thread
\* the callback of ical_watcher up to its first send: the notification is
\* classified; a relevant one sends the signal on event_sink
WatcherClassify(c) ==
  /\ holding[c] = <<>> /\ inflight[c] # <<>>
  /\ LET event == Head(inflight[c])
         m == relevant_modification(event)
     IN /\ inflight' = [inflight EXCEPT ![c] = Tail(@)]
        /\ IF m # <<>>
             THEN /\ event_sink' = event_sink + 1
                  /\ holding' = [holding EXCEPT ![c] = <<[event |-> event, m |-> m[1]]>>]
             ELSE UNCHANGED <<event_sink, holding>>
  /\ UNCHANGED <<pc, pemCal, viaLink, now, files, pending_modifications, events, tz,
                 occurrence_cache, last, applied, fsOps, queries, jumps>>

\* a variant in which the callback applies the item to the index itself
WatcherEnqueue_applying(c) ==
  /\ holding[c] # <<>>
  /\ events' = [events EXCEPT ![c] = add_for_path(@, files[c], holding[c][1].m.path, now)]
  /\ holding' = [holding EXCEPT ![c] = <<>>]
  /\ UNCHANGED <<pc, pemCal, viaLink, now, files, inflight, event_sink, tz,
                 pending_modifications, occurrence_cache, last, applied, fsOps, queries,
                 jumps>>

\* the second send of the callback: queue_writer.send(m)
WatcherEnqueue(c) ==
  /\ holding[c] # <<>>
  /\ pending_modifications' = [pending_modifications EXCEPT ![c] = Append(@, holding[c][1].m)]
  /\ holding' = [holding EXCEPT ![c] = <<>>]
  /\ UNCHANGED <<pc, pemCal, viaLink, now, files, inflight, event_sink, events, tz,
                 occurrence_cache, last, applied, fsOps, queries, jumps>>

\* ------------------------------------------------------ the owning thread
\* Agenda::process_external_modifications is entered
PemBegin ==
  /\ pc = "idle"
  /\ pc' = "pem"
  /\ pemCal' = 1
  /\ last' = Call("pem", NoRange, "ok", <<>>, <<>>)
  /\ applied' = NoneApplied
  /\ UNCHANGED <<viaLink, now, files, inflight, holding, pending_modifications, event_sink,
                 events, tz, occurrence_cache, fsOps, queries, jumps>>

\* a variant of the end of the loop that, like Receiver::iter, waits for the
\* next item when the queue is empty
PemNext_waiting ==
  /\ pc = "pem"
  /\ pending_modifications[pemCal] = <<>>
  /\ UNCHANGED vars

\* mpsc::Receiver::try_iter : the item the next try_recv yields
Received(queue) == Head(queue)
Remaining(queue) == Tail(queue)

\* one turn of `for m in self.pending_modifications.try_iter()`; a panic of
\* the arm ends the process
PemItem ==
  /\ pc = "pem"
  /\ pending_modifications[pemCal] # <<>>
  /\ LET m == Received(pending_modifications[pemCal])
     IN /\ IF Unwinds(events[pemCal], files[pemCal], m)
             THEN /\ pc' = "crashed"
                  /\ last' = Call("pem", NoRange, "panic", <<>>, <<>>)
                  /\ UNCHANGED events
             ELSE /\ events' = [events EXCEPT
                                  ![pemCal] = ApplyModification(@, files[pemCal], m, now)]
                  /\ UNCHANGED <<pc, last>>
        /\ applied' = [cal |-> pemCal, m |-> m,
                       prev |-> IF applied.cal = pemCal THEN applied.m ELSE NoMod,
                       had |-> Indexed(events[pemCal], m.path.name)]
  /\ pending_modifications' =
       [pending_modifications EXCEPT ![pemCal] = Remaining(@)]
  /\ UNCHANGED <<pemCal, viaLink, now, files, inflight, holding, event_sink, tz,
                 occurrence_cache, fsOps, queries, jumps>>

\* try_iter finds the queue empty: on to the next calendar, or return
PemNext ==
  /\ pc = "pem"
  /\ pending_modifications[pemCal] = <<>>
  /\ IF pemCal < NumCals
       THEN pemCal' = pemCal + 1 /\ pc' = pc
       ELSE pemCal' = 1 /\ pc' = "idle"
  /\ UNCHANGED <<viaLink, now, files, inflight, holding, pending_modifications, event_sink,
                 events, tz, occurrence_cache, last, applied, fsOps, queries, jumps>>

\* the ranges a caller asks for: the bounds at midnight of the dates 1..MaxDay
QueryTicks == {d * TicksPerDay : d \in 1..MaxDay}
FirstTick == 1 * TicksPerDay
LastTick == MaxDay * TicksPerDay
Ranges ==
  {r \in {RangeOf("Included", s, "Included", e) : s \in QueryTicks, e \in QueryTicks} :
     r.s <= r.e}
    \cup {RangeOf("Included", FirstTick, "Excluded", LastTick),
          RangeOf("Excluded", FirstTick, "Included", LastTick)}
UnboundedRanges ==
  {RangeOf("Unbounded", 0, "Excluded", LastTick), RangeOf("Included", FirstTick, "Unbounded", 0)}

\* Agenda::events_in
EventsIn(range) ==
  /\ pc = "idle" /\ queries > 0
  /\ queries' = queries - 1
  /\ IF Bounded(range.sk) /\ Bounded(range.ek)
       THEN LET got == fetch_maybe_cached(occurrence_cache, events, tz, range)
            IN /\ occurrence_cache' = got.cache
               /\ IF got.resolved
                    THEN /\ pc' = pc
                         /\ last' = Call("events_in", range, "ok", got.lines, got.populated)
                    ELSE /\ pc' = "crashed"
                         /\ last' = Call("events_in", range, "panic", <<>>, got.populated)
       ELSE /\ pc' = "crashed"
            /\ last' = Call("events_in", range, "panic", <<>>, <<>>)
            /\ UNCHANGED occurrence_cache
  /\ UNCHANGED <<applied, pemCal, viaLink, now, files, inflight, holding,
                 pending_modifications, event_sink, events, tz, fsOps, jumps>>

Next ==
  \/ FromConfig
  \/ \E c \in Cals : \E n \in NamesOf(c), ct \in Contents : FsCreate(c, n, ct)
  \/ \E c \in Cals : \E n \in NamesOf(c), ct \in Contents : FsWrite(c, n, ct)
  \/ \E c \in Cals : \E n \in NamesOf(c) : FsDelete(c, n)
  \/ \E c \in Cals : \E old \in NamesOf(c), new \in NamesOf(c) : FsRename(c, old, new)
  \/ AdvanceClock
  \/ \E c \in Cals : WatcherClassify(c)
  \/ \E c \in Cals : WatcherEnqueue(c)
  \/ PemBegin
  \/ PemItem
  \/ PemNext
  \/ \E r \in Ranges \cup UnboundedRanges : EventsIn(r)

Spec == Init /\ [][Next]_vars

\* ------------------------------------------------- the watcher on its own
\* Every notification the watcher can be handed: each kind, on one path or,
\* for a rename that names both ends, on two.
RawEvents ==
  {[kind |-> k, paths |-> <<p>>] : k \in RawKinds \ {"RenameBoth"}, p \in Paths}
    \cup {[kind |-> "RenameBoth", paths |-> <<p, q>>] : p \in Paths, q \in Paths}

InitWatch ==
  /\ pc = "idle"
  /\ pemCal = 1
  /\ viaLink \in BOOLEAN
  /\ now = Today * TicksPerDay
  /\ files = EmptyDisk
  /\ \E ev \in RawEvents : inflight = [c \in Cals |-> IF c = 1 THEN <<ev>> ELSE <<>>]
  /\ holding = [c \in Cals |-> <<>>]
  /\ pending_modifications = [c \in Cals |-> <<>>]
  /\ event_sink = 0
  /\ events = [c \in Cals |-> EmptyIndex]
  /\ tz = [c \in Cals |-> 0]
  /\ occurrence_cache = EmptyCache
  /\ last = Call("from_config", NoRange, "ok", <<>>, <<>>)
  /\ applied = NoneApplied
  /\ fsOps = 0 /\ queries = 0 /\ jumps = 0

NextWatch ==
  \/ \E c \in Cals : WatcherClassify(c)
  \/ \E c \in Cals : WatcherEnqueue(c)

SpecWatch == InitWatch /\ [][NextWatch]_vars

\* ------------------------------------------- reconciliation under fairness
\* The owning thread reconciles while the directories change.  The thread that
\* is inside process_external_modifications keeps running its loop (weak
\* fairness of the turn and of the end of the loop); the file system and the
\* watcher threads are free to act or not, and the file system acts finitely
\* often.  The directories start empty and fill while the program runs.
InitLive == Init /\ queries = 0 /\ jumps = 0 /\ files = EmptyDisk

NextLive ==
  \/ FromConfig
  \/ \E c \in Cals : \E n \in NamesOf(c), ct \in Contents : FsCreate(c, n, ct)
  \/ \E c \in Cals : \E n \in NamesOf(c), ct \in Contents : FsWrite(c, n, ct)
  \/ \E c \in Cals : \E n \in NamesOf(c) : FsDelete(c, n)
  \/ \E c \in Cals : \E old \in NamesOf(c), new \in NamesOf(c) : FsRename(c, old, new)
  \/ \E c \in Cals : WatcherClassify(c)
  \/ \E c \in Cals : WatcherEnqueue(c)
  \/ PemBegin
  \/ PemItem
  \/ PemNext

SpecLive == InitLive /\ [][NextLive]_vars /\ WF_vars(PemItem) /\ WF_vars(PemNext)

\* ------------------------------------------------------- the notifier
\* config.notification_headsup_minutes, in ticks, and the days the daemon is
\* followed for
Headsup == 1
MaxNotifyDays == 1

\* jk-notify: main() builds the Agenda and loops: reconcile, compute the
\* events of the check window, and for each, in the order of their begin,
\* sleep in wait() until its headsup time and spawn its notification; then
\* sleep until the end of the window and compute again.  `last` holds the
\* last call of the loop and, in its field out, the events still to notify.
\* next_events.sort_unstable_by_key : the orders the sort may leave
SortedByBegin(lines) ==
  {s \in {[i \in 1..Len(lines) |-> lines[p[i]]] :
            p \in {q \in [1..Len(lines) -> 1..Len(lines)] :
                     \A i, j \in 1..Len(lines) : q[i] = q[j] => i = j}} :
     \A i, j \in 1..Len(s) : i < j => Begin(s[i].span) <= Begin(s[j].span)}

\* what main gets from events_in(begin..end).collect() and the sort: the
\* events in one of the orders, or the panic of the unwrap in
\* fetch_maybe_cached
NextEvents(got, range) ==
  IF got.resolved
    THEN {Call("events_in", range, "ok", next_events, got.populated) :
            next_events \in SortedByBegin(got.lines)}
    ELSE {Call("events_in", range, "panic", <<>>, got.populated)}

\* let check_window = Duration::days(1) : begin..end of the window at `now`
CheckWindow == RangeOf("Included", now, "Excluded", now + TicksPerDay)

\* 'outer: loop { calendar.process_external_modifications(); after the
\* Agenda is built and after every `continue 'outer`
MainPem ==
  /\ last.op = "from_config" \/ (last.op = "wait" /\ last.status = "Restart")
  /\ PemBegin

\* the inner loop: calendar.events_in(begin..end), collected and sorted; it
\* runs after the reconciliation and after the wait for the end of the window
MainEventsIn ==
  /\ pc = "idle"
  /\ last.op = "pem" \/ (last.op = "wait" /\ last.status = "Continue" /\ last.out = <<>>)
  /\ occurrence_cache' = fetch_maybe_cached(occurrence_cache, events, tz, CheckWindow).cache
  /\ pc' = IF fetch_maybe_cached(occurrence_cache, events, tz, CheckWindow).resolved
             THEN pc ELSE "crashed"
  /\ last' \in NextEvents(fetch_maybe_cached(occurrence_cache, events, tz, CheckWindow),
                          CheckWindow)
  /\ UNCHANGED <<applied, pemCal, viaLink, now, files, inflight, holding,
                 pending_modifications, event_sink, events, tz, fsOps, queries, jumps>>

\* the loop sleeps in wait(), until the headsup time of the next event or,
\* with no event left, until the end of the window
Sleeping == pc = "idle" /\ last.op \in {"events_in", "spawn_notify"}

\* wait(): recv_timeout yields Ok(ExternalModification), wait returns Restart
\* and main does `continue 'outer`, which drops the events still to notify
WaitRestart ==
  /\ Sleeping /\ event_sink > 0
  /\ event_sink' = event_sink - 1
  /\ last' = Call("wait", last.range, "Restart", <<>>, <<>>)
  /\ UNCHANGED <<pc, applied, pemCal, viaLink, now, files, inflight, holding,
                 pending_modifications, events, tz, occurrence_cache, fsOps, queries, jumps>>

\* the instant wait() sleeps until: the headsup time of the next event to
\* notify or, with no event left, the end of the window less the headsup time
Until ==
  IF last.out # <<>> THEN Begin(Head(last.out).span) - Headsup
  ELSE last.range.e - Headsup

\* wait(): recv_timeout yields Err(Timeout), wait returns Continue; the clock
\* is at the instant waited for, or where it was when that instant is past
\* (to_sleep is negative and the timeout is Duration::ZERO)
WaitContinue ==
  /\ Sleeping /\ event_sink = 0
  /\ now' = IF Until > now THEN Until ELSE now
  /\ now' <= (Today + MaxNotifyDays) * TicksPerDay
  /\ last' = Call("wait", last.range, "Continue", last.out, <<>>)
  /\ UNCHANGED <<pc, applied, pemCal, viaLink, files, inflight, holding,
                 pending_modifications, event_sink, events, tz, occurrence_cache, fsOps,
                 queries, jumps>>

\* spawn_notify(*begin, event) for the event the loop waited for; the field
\* populated of `last` holds the event notified
SpawnNotify ==
  /\ pc = "idle"
  /\ last.op = "wait" /\ last.status = "Continue" /\ last.out # <<>>
  /\ last' = Call("spawn_notify", last.range, "ok", Tail(last.out), <<Head(last.out)>>)
  /\ UNCHANGED <<pc, applied, pemCal, viaLink, now, files, inflight, holding,
                 pending_modifications, event_sink, events, tz, occurrence_cache, fsOps,
                 queries, jumps>>

\* The notifier with its watchers while the directories change.  The main
\* thread is the one thread that executes the loop; once wait() has returned
\* it runs on through the reconciliation, which never blocks (try_iter), so a
\* step of the reconciliation that stays enabled is taken (weak fairness).
\* The file system and the watcher threads are free to act or not.  The
\* directories are watched by their canonical path and change once.
InitNotify ==
  /\ pc = "start"
  /\ pemCal = 1
  /\ viaLink = FALSE
  /\ now = Today * TicksPerDay
  /\ files \in Disks(MaxInitFiles)
  /\ inflight = [c \in Cals |-> <<>>]
  /\ holding = [c \in Cals |-> <<>>]
  /\ pending_modifications = [c \in Cals |-> <<>>]
  /\ event_sink = 0
  /\ events = [c \in Cals |-> EmptyIndex]
  /\ tz = [c \in Cals |-> 0]
  /\ occurrence_cache = EmptyCache
  /\ last = Call("none", NoRange, "ok", <<>>, <<>>)
  /\ applied = NoneApplied
  /\ fsOps = MaxFsOps - 1 /\ queries = 0 /\ jumps = 0

NextNotify ==
  \/ FromConfig
  \/ \E c \in Cals : \E n \in NamesOf(c), ct \in Contents : FsCreate(c, n, ct)
  \/ \E c \in Cals : \E n \in NamesOf(c), ct \in Contents : FsWrite(c, n, ct)
  \/ \E c \in Cals : \E n \in NamesOf(c) : FsDelete(c, n)
  \/ \E c \in Cals : \E old \in NamesOf(c), new \in NamesOf(c) : FsRename(c, old, new)
  \/ \E c \in Cals : WatcherClassify(c)
  \/ \E c \in Cals : WatcherEnqueue(c)
  \/ MainPem
  \/ PemItem
  \/ PemNext
  \/ MainEventsIn
  \/ WaitRestart
  \/ WaitContinue
  \/ SpawnNotify

\* a step of the main thread at the head of 'outer and inside the
\* reconciliation
Reconciling == MainPem \/ PemItem \/ PemNext

SpecNotify == InitNotify /\ [][NextNotify]_vars /\ WF_vars(Reconciling)

\* ---------------------------------------------------- Agenda::events_of_day
\* the begin and the end of the day, as the range begin..end
DayRange(date) ==
  RangeOf("Included", date * TicksPerDay, "Excluded", (date + 1) * TicksPerDay)

\* a variant that answers through the cache, as events_in(begin..end) does
EventsOfDay_cached(date) ==
  /\ pc = "idle" /\ queries > 0
  /\ queries' = queries - 1
  /\ LET got == fetch_maybe_cached(occurrence_cache, events, tz, DayRange(date))
     IN /\ occurrence_cache' = got.cache
        /\ last' = Call("events_of_day", DayRange(date), "ok", got.lines, <<>>)
  /\ UNCHANGED <<pc, applied, pemCal, viaLink, now, files, inflight, holding,
                 pending_modifications, event_sink, events, tz, fsOps, jumps>>

\* Agenda::events_of_day : filter_events(begin..end) of every calendar, in
\* the order of the names of the calendars
EventsOfDay(date) ==
  /\ pc = "idle" /\ queries > 0
  /\ queries' = queries - 1
  /\ last' = Call("events_of_day", DayRange(date), "ok",
                  AllCalendars(1, events, tz, DayRange(date).s, DayRange(date).e), <<>>)
  /\ UNCHANGED <<pc, applied, pemCal, viaLink, now, files, inflight, holding,
                 pending_modifications, event_sink, events, tz, occurrence_cache, fsOps, jumps>>

\* The Agenda asked for days and for ranges while its directories change: the
\* runs with queries, the directories watched by their canonical path.
InitDay == Init /\ queries = MaxQueries /\ viaLink = FALSE

NextDay ==
  \/ FromConfig
  \/ \E c \in Cals : \E n \in NamesOf(c), ct \in Contents : FsCreate(c, n, ct)
  \/ \E c \in Cals : \E n \in NamesOf(c), ct \in Contents : FsWrite(c, n, ct)
  \/ \E c \in Cals : \E n \in NamesOf(c) : FsDelete(c, n)
  \/ \E c \in Cals : \E old \in NamesOf(c), new \in NamesOf(c) : FsRename(c, old, new)
  \/ \E c \in Cals : WatcherClassify(c)
  \/ \E c \in Cals : WatcherEnqueue(c)
  \/ PemBegin
  \/ PemItem
  \/ PemNext
  \/ \E r \in Ranges : EventsIn(r)
  \/ \E date \in 1..MaxDay : EventsOfDay(date)

SpecDay == InitDay /\ [][NextDay]_vars

\* ------------------------------------------------- operations on values
\* The operations that compute a value from their argument alone are run one
\* call at a time on a program that is otherwise at rest: `last` holds the
\* call, first as asked and then with its outcome.
Rest == <<pc, pemCal, viaLink, now, files, inflight, holding, pending_modifications,
          event_sink, events, tz, occurrence_cache, applied, fsOps, queries, jumps>>

AtRest ==
  /\ pc = "idle"
  /\ pemCal = 1
  /\ viaLink = FALSE
  /\ now = Today * TicksPerDay
  /\ files = EmptyDisk
  /\ inflight = [c \in Cals |-> <<>>]
  /\ holding = [c \in Cals |-> <<>>]
  /\ pending_modifications = [c \in Cals |-> <<>>]
  /\ event_sink = 0
  /\ events = [c \in Cals |-> EmptyIndex]
  /\ tz = [c \in Cals |-> 0]
  /\ occurrence_cache = EmptyCache
  /\ applied = NoneApplied
  /\ fsOps = 0 /\ queries = 0 /\ jumps = 0

Asked(op, arg) == [op |-> op, arg |-> arg, status |-> "asked", out |-> <<>>]
Answered(op, arg, status, out) == [op |-> op, arg |-> arg, status |-> status, out |-> out]
\* the same for an outcome Ok(value), Err(kind) or Panic(what)
AnsweredWith(op, arg, got) == Answered(op, arg, got.status, got.value)

\* ------------------------------------------------------ Occurrence::days
\* The spans an Occurrence may carry: every variant, in three zones, over the
\* days 1..MaxSpanDay, with the end not before the begin.
MaxSpanDay == 4
Spans ==
  LET Zones == {0 - 1, 0, 1}
      SpanTicks == (1 * TicksPerDay)..(MaxSpanDay * TicksPerDay + (TicksPerDay - 1))
      SpanDates == 1..MaxSpanDay
  IN {TimePoints(b, e, z) : b \in SpanTicks, e \in SpanTicks, z \in Zones}
       \cup {DurationSpan(b, e - b, z) : b \in SpanTicks, e \in SpanTicks, z \in Zones}
       \cup {Instant(b, z) : b \in SpanTicks, z \in Zones}
       \cup {Allday(a, NoDate, z) : a \in SpanDates, z \in Zones}
       \cup {Allday(a, e, z) : a \in SpanDates, e \in SpanDates, z \in Zones}

InitDays ==
  /\ AtRest
  /\ \E ts \in {sp \in Spans : Begin(sp) <= End(sp)} : last = Asked("days", ts)

\* Occurrence::days called on an Occurrence with this span
CallDays ==
  /\ last.op = "days" /\ last.status = "asked"
  /\ last' = Answered("days", last.arg, "ok", Days(last.arg))
  /\ UNCHANGED Rest

SpecDays == InitDays /\ [][CallDays]_vars

\* ------------------------------------------------------------ IcalDuration
\* A text is a sequence of one-character strings.
DigitChars == <<"0", "1", "2", "3", "4", "5", "6", "7", "8", "9">>
DigitValue(c) == (CHOOSE i \in 1..Len(DigitChars) : DigitChars[i] = c) - 1

\* nom digit1 : the longest prefix of digits
RECURSIVE digit1(_)
digit1(input) ==
  IF input # <<>> /\ (\E i \in 1..Len(DigitChars) : DigitChars[i] = Head(input)) THEN <<Head(input)>> \o digit1(Tail(input)) ELSE <<>>

\* IcalDuration::parse_integer_value : i64::from_str_radix(input, 10)
RECURSIVE parse_integer_value(_)
parse_integer_value(digits) ==
  IF digits = <<>> THEN 0
  ELSE parse_integer_value(SubSeq(digits, 1, Len(digits) - 1)) * 10
         + DigitValue(digits[Len(digits)])

\* the result of a nom parser: whether it matched, its value, the input left
Matched(value, rest) == [ok |-> TRUE, value |-> value, rest |-> rest]
NoMatch(input) == [ok |-> FALSE, value |-> 0, rest |-> input]

\* IcalDuration::value_with_designator : terminated(map_res(digit1, ..), tag(designator))
value_with_designator(designator, input) ==
  LET digits == digit1(input)
      rest == SubSeq(input, Len(digits) + 1, Len(input))
  IN IF digits # <<>> /\ rest # <<>> /\ Head(rest) = designator
       THEN Matched(parse_integer_value(digits), Tail(rest))
       ELSE NoMatch(input)

\* struct IcalDuration
IcalDuration(sign, years, months, weeks, days, hours, minutes, seconds) ==
  [sign |-> sign, years |-> years, months |-> months, weeks |-> weeks, days |-> days,
   hours |-> hours, minutes |-> minutes, seconds |-> seconds]

\* IcalDuration::parse_week_format
parse_week_format(input) ==
  LET weeks == value_with_designator("W", input)
  IN IF weeks.ok THEN Matched(IcalDuration(1, 0, 0, weeks.value, 0, 0, 0, 0), weeks.rest)
     ELSE NoMatch(input)

\* IcalDuration::parse_datetime_format : every component is optional (a
\* component that does not match leaves the input where it is and counts as
\* absent), the time part is taken when a 'T' follows, and a text without
\* any component is an error
parse_datetime_format(input) ==
  LET years == value_with_designator("Y", input)
      months == value_with_designator("M", years.rest)
      days == value_with_designator("D", months.rest)
      time == days.rest # <<>> /\ Head(days.rest) = "T"
      hours == IF time THEN value_with_designator("H", Tail(days.rest))
                       ELSE NoMatch(days.rest)
      minutes == IF time THEN value_with_designator("M", hours.rest) ELSE NoMatch(days.rest)
      seconds == IF time THEN value_with_designator("S", minutes.rest) ELSE NoMatch(days.rest)
  IN IF ~years.ok /\ ~months.ok /\ ~days.ok /\ ~hours.ok /\ ~minutes.ok /\ ~seconds.ok
       THEN NoMatch(input)
       ELSE Matched(IcalDuration(1, years.value, months.value, 0, days.value,
                                 hours.value, minutes.value, seconds.value),
                    seconds.rest)

\* IcalDuration::as_chrono_duration, in seconds
as_chrono_duration(dur) ==
  dur.sign * ((dur.years * 12 * 30 * 24 * 60 * 60)
                + (dur.months * 30 * 24 * 60 * 60)
                + (dur.weeks * 7 * 24 * 60 * 60)
                + (dur.hours * 60 * 60)
                + (dur.minutes * 60)
                + (dur.seconds))

\* <IcalDuration as FromStr>::from_str : the sign, then
\* all_consuming(preceded(char('P'), alt((week format, datetime format)))).
\* The error of the parser is wrapped into Err(DurationParse) by or_else and
\* then unwrapped: the call panics.
from_str(s) ==
  LET signed == s # <<>> /\ Head(s) \in {"+", "-"}
      rest == IF signed THEN Tail(s) ELSE s
      week == IF rest # <<>> /\ Head(rest) = "P" THEN parse_week_format(Tail(rest))
              ELSE NoMatch(rest)
      parsed == IF rest # <<>> /\ Head(rest) = "P"
                  THEN (IF week.ok THEN week ELSE parse_datetime_format(Tail(rest)))
                  ELSE NoMatch(rest)
  IN IF parsed.ok /\ parsed.rest = <<>>
       THEN [status |-> "ok",
             value |-> [parsed.value EXCEPT !.sign = IF signed /\ Head(s) = "-" THEN 0 - 1 ELSE 1]]
       ELSE [status |-> "panic", value |-> "DurationParse"]

\* The duration texts handed to the parser: an optional sign, the 'P' or
\* none, any choice of components in the order W Y M D T H M S, each with one
\* or two digits or (the days) with a letter in place of the number, and
\* trailing text or none.  Minutes stand in the time part only ("30M" before
\* the 'T' are months).
Component(c, designator) == IF c = <<>> THEN <<>> ELSE c \o <<designator>>
DurationInputs ==
  {in \in [sign : {<<>>, <<"+">>, <<"-">>}, p : BOOLEAN, w : {<<>>, <<"2">>}, y : {<<>>, <<"1">>},
            m : {<<>>, <<"2">>}, d : {<<>>, <<"3">>, <<"1", "0">>, <<"X">>}, t : BOOLEAN,
            h : {<<>>, <<"5">>}, mi : {<<>>, <<"3", "0">>}, s : {<<>>, <<"7">>},
            trail : {<<>>, <<"X">>}] :
     in.mi # <<>> => in.t}
DurationText(in) ==
  in.sign \o (IF in.p THEN <<"P">> ELSE <<>>)
    \o Component(in.w, "W") \o Component(in.y, "Y") \o Component(in.m, "M")
    \o Component(in.d, "D") \o (IF in.t THEN <<"T">> ELSE <<>>)
    \o Component(in.h, "H") \o Component(in.mi, "M") \o Component(in.s, "S") \o in.trail

InitDuration ==
  /\ AtRest
  /\ \E in \in DurationInputs : last = Asked("from_str", in)

\* "<text>".parse::<IcalDuration>() followed, for a duration, by
\* as_chrono_duration
CallFromStr ==
  /\ last.op = "from_str" /\ last.status = "asked"
  /\ LET got == from_str(DurationText(last.arg))
     IN last' = Answered("from_str", last.arg, got.status,
                         IF got.status = "ok"
                           THEN [duration |-> got.value, total |-> as_chrono_duration(got.value)]
                           ELSE got.value)
  /\ UNCHANGED Rest

SpecDuration == InitDuration /\ [][CallFromStr]_vars

\* ------------------------------------------------------------ IcalDateTime
\* chrono_tz zones by name: UTC, a zone one tick east of UTC all year, and a
\* zone with daylight saving time, one tick east of UTC from SpringTick up to
\* FallTick and on UTC otherwise.  Its local time SpringTick does not exist
\* and its local time FallTick exists twice.
SpringTick == 3
FallTick == 6
ZoneNames == {"UTC", "East", "Dst"}
Offset(zone, utc) ==
  CASE zone = "East" -> 1
    [] zone = "Dst" -> (IF SpringTick <= utc /\ utc < FallTick THEN 1 ELSE 0)
    [] OTHER -> 0

\* the naive date-times of a property value are 0..MaxLocal
MaxLocal == 8

\* TimeZone::from_local_datetime : the instants of the zone that show this
\* local time (LocalResult::None, Single or Ambiguous)
from_local_datetime(zone, local) ==
  {u \in (0 - 1)..MaxLocal : u + Offset(zone, u) = local}

\* LocalResult::earliest : <<>> for None
earliest(instants) ==
  IF instants = {} THEN <<>>
  ELSE <<CHOOSE u \in instants : \A v \in instants : u <= v>>

\* enum IcalDateTime
\* Date(date), Floating(naive), Utc(instant) and Local(instant in a zone)
IcalDateTime(kind, at, zone) == [kind |-> kind, at |-> at, zone |-> zone]

\* ical::property::Property as the conversions read it: the value (a date, a
\* date-time, a date-time with the UTC marker, other text, or no value), the
\* VALUE=DATE parameter and the TZID parameter ("" for none)
Property(form, naive, valueDate, tzid) ==
  [form |-> form, naive |-> naive, valueDate |-> valueDate, tzid |-> tzid]
Properties ==
  {Property(f, n, v, t) : f \in {"date", "datetime", "datetimeZ", "text"}, n \in 0..MaxLocal,
                          v \in BOOLEAN, t \in ZoneNames \cup {"", "Nowhere"}}
    \cup {Property("none", 0, FALSE, "")}

\* NaiveDateTime::parse_from_str(val, ISO8601_2004_LOCAL_FORMAT) : the format
\* takes a date-time, with the UTC marker or without
parse_datetime(prop) ==
  IF prop.form \in {"datetime", "datetimeZ"} THEN <<prop.naive>> ELSE <<>>

\* NaiveDate::parse_from_str(val, ISO8601_2004_LOCAL_FORMAT_DATE)
parse_date(prop) ==
  IF prop.form = "date" THEN <<prop.naive \div TicksPerDay>> ELSE <<>>

Ok(value) == [status |-> "ok", value |-> value]
Err(kind) == [status |-> "err", value |-> kind]
Panic(what) == [status |-> "panic", value |-> what]

\* the rest of try_from once the parameters are read: a date-time becomes
\* Local, Utc or Floating, anything else is parsed as a date
ResolveInstant(prop, zone) ==
  LET dt == parse_datetime(prop)
      date == parse_date(prop)
  IN IF dt # <<>>
       THEN (IF zone # ""
               THEN (LET first == earliest(from_local_datetime(zone, dt[1]))
                     IN IF first = <<>> THEN Panic("unwrap on None")
                        ELSE Ok(IcalDateTime("Local", first[1], zone)))
               ELSE IF prop.form = "datetimeZ" THEN Ok(IcalDateTime("Utc", dt[1], "UTC"))
               ELSE Ok(IcalDateTime("Floating", dt[1], "UTC")))
       ELSE IF date # <<>> THEN Ok(IcalDateTime("Date", date[1], "UTC"))
       ELSE Err("ParseError")

\* <IcalDateTime as TryFrom<&Property>>::try_from
try_from(prop) ==
  IF prop.form = "none" THEN Err("DateParse")
  ELSE IF prop.valueDate
    THEN (IF parse_date(prop) # <<>> THEN Ok(IcalDateTime("Date", parse_date(prop)[1], "UTC"))
          ELSE Err("ParseError"))
  ELSE IF prop.tzid # "" /\ prop.tzid \notin ZoneNames THEN Err("DateParse")
  ELSE ResolveInstant(prop, prop.tzid)

InitInstant ==
  /\ AtRest
  /\ \E prop \in Properties : last = Asked("try_from", prop)

\* IcalDateTime::try_from(&property)
CallTryFrom ==
  /\ last.op = "try_from" /\ last.status = "asked"
  /\ LET got == try_from(last.arg)
     IN last' = Answered("try_from", last.arg, got.status, got.value)
  /\ UNCHANGED Rest

SpecInstant == InitInstant /\ [][CallTryFrom]_vars

\* -------------------------------------------------------- Event::from_ical
\* IcalDateTime::as_datetime : the instant; a date is its midnight, a floating
\* time is read as UTC
as_datetime(ical) == IF ical.kind = "Date" THEN ical.at * TicksPerDay ELSE ical.at

\* chrono::Duration in ticks
InTicks(seconds) ==
  LET SecondsPerTick == 86400 \div TicksPerDay
  IN IF seconds >= 0 THEN seconds \div SecondsPerTick
     ELSE 0 - ((0 - seconds) \div SecondsPerTick)

\* the zone of the event as the offset that the spans of the model carry
ZoneOffset(ical) == IF ical.kind = "Local" THEN Offset(ical.zone, ical.at) ELSE 0

\* <IcalDuration as TryFrom<&Property>>::try_from
duration_try_from(property) ==
  IF property.value = <<>> THEN Err("EventParse")
  ELSE LET got == from_str(DurationText(property.value[1]))
       IN IF got.status = "ok" THEN Ok(got.value) ELSE Panic(got.value)

\* an event record as from_ical reads it: DTSTART, DTEND and DURATION, each
\* <<property>> or, when the event has no such property, <<>>
IcalEvent(dtstart, dtend, duration) ==
  [dtstart |-> dtstart, dtend |-> dtend, duration |-> duration]

\* Event::from_ical, the arm for an event with DTEND
from_ical_dtend(dtstart_spec, end, zone) ==
  IF end.status # "ok" THEN end
  ELSE IF end.value.kind = "Date"
    THEN (IF dtstart_spec.kind = "Date"
            THEN Ok(Allday(dtstart_spec.at, end.value.at, zone))
            ELSE Err("DateParse"))
  ELSE Ok(TimePoints(as_datetime(dtstart_spec), as_datetime(end.value), zone))

\* Event::from_ical, the arm for an event with DURATION and no DTEND
from_ical_duration(dtstart_spec, dur_spec, zone) ==
  IF dur_spec.status # "ok" THEN dur_spec
  ELSE Ok(DurationSpan(as_datetime(dtstart_spec),
                       InTicks(as_chrono_duration(dur_spec.value)), zone))

\* Event::from_ical once DTSTART is converted
from_ical_dtstart(event, start) ==
  IF start.status # "ok" THEN start
  ELSE IF event.dtend # <<>>
    THEN from_ical_dtend(start.value, try_from(event.dtend[1]), ZoneOffset(start.value))
  ELSE IF event.duration # <<>>
    THEN from_ical_duration(start.value, duration_try_from(event.duration[1]),
                            ZoneOffset(start.value))
  ELSE IF start.value.kind = "Date"
    THEN Ok(Allday(start.value.at, NoDate, ZoneOffset(start.value)))
  ELSE Ok(Instant(as_datetime(start.value), ZoneOffset(start.value)))

\* Event::from_ical up to the occurrence: the span of the event, an error
\* returned, or a panic
from_ical(event) ==
  IF event.dtstart = <<>> THEN Err("EventMissingKey")
  ELSE from_ical_dtstart(event, try_from(event.dtstart[1]))

\* The events handed to from_ical: start and end are dates or date-times at
\* three times of the days 1 and 2, without zone or in the zone with daylight
\* saving time; the duration is half a day forward or backward, one day, a
\* malformed text, or a property without value.
IcalEvents ==
  LET EventProperties ==
        {Property(f, n, v, t) : f \in {"date", "datetime", "datetimeZ"}, n \in {2, 3, 5},
                                v \in BOOLEAN, t \in {"", "Dst"}}
      NoComponents ==
        [sign |-> <<>>, p |-> TRUE, w |-> <<>>, y |-> <<>>, m |-> <<>>, d |-> <<>>,
         t |-> FALSE, h |-> <<>>, mi |-> <<>>, s |-> <<>>, trail |-> <<>>]
      HalfDay == [NoComponents EXCEPT !.t = TRUE, !.h = <<"1", "2">>]
      EventDurations ==
        {[value |-> <<HalfDay>>], [value |-> <<[HalfDay EXCEPT !.sign = <<"-">>]>>],
         [value |-> <<[NoComponents EXCEPT !.d = <<"1">>]>>],
         [value |-> <<[NoComponents EXCEPT !.d = <<"X">>]>>], [value |-> <<>>]}
      Optional(set) == {<<>>} \cup {<<x>> : x \in set}
  IN {IcalEvent(b, e, d) : b \in Optional(EventProperties), e \in Optional(EventProperties),
                           d \in Optional(EventDurations)}

InitIcal ==
  /\ AtRest
  /\ \E event \in IcalEvents : last = Asked("from_ical", event)

\* the outcome of from_ical; a span comes with its day slices
Parsed(event, got) ==
  Answered("from_ical", event, got.status,
           IF got.status = "ok" THEN [span |-> got.value, days |-> Days(got.value)]
           ELSE got.value)

\* Event::from_ical, and Occurrence::days of the span it gives
CallFromIcal ==
  /\ last.op = "from_ical" /\ last.status = "asked"
  /\ last' = Parsed(last.arg, from_ical(last.arg))
  /\ UNCHANGED Rest

SpecIcal == InitIcal /\ [][CallFromIcal]_vars

\* ------------------------------------------------ the recurrence of an event
\* enum OccurrenceRule: Onetime(span) or Recurring(span, rule set); the rule
\* set is kept as the instant it is anchored at and the text it was built from
Onetime(span) == [rule |-> "Onetime", span |-> span, dt_start |-> <<>>, rrule |-> <<>>]
Recurring(span, dt_start, rrule) ==
  [rule |-> "Recurring", span |-> span, dt_start |-> <<dt_start>>, rrule |-> <<rrule>>]

\* OccurrenceRule::recurring
recurring(occurrence, dt_start, rrule) == Recurring(occurrence.span, dt_start, rrule)

\* The values of an RRULE property: "rule", a rule that parses and validates;
\* "unvalidated", a rule that parses (RRule<Unvalidated>) and is refused by
\* build(), which validates it against the start; "text", which is no rule.
\* the end of Event::from_ical: the RRULE property, when there is one, is
\* unwrapped, parsed and built on the begin of the occurrence
attach_rrule(event, got) ==
  IF got.status # "ok" THEN got
  ELSE IF event.rrule = <<>> THEN Ok(Onetime(got.value))
  ELSE IF event.rrule[1].value = <<>> THEN Panic("unwrap on None")
  ELSE IF event.rrule[1].value[1] = "text" THEN Ok(Onetime(got.value))
  ELSE IF event.rrule[1].value[1] = "unvalidated" THEN Err("RRuleError")
  ELSE Ok(recurring(Onetime(got.value), Begin(got.value), event.rrule[1].value[1]))

\* the events of IcalEvents, each without RRULE and with every RRULE
RecurEvents ==
  {[dtstart |-> e.dtstart, dtend |-> e.dtend, duration |-> e.duration, rrule |-> r] :
     e \in IcalEvents,
     r \in {<<>>, <<[value |-> <<>>]>>}
              \cup {<<[value |-> <<t>>]>> : t \in {"rule", "unvalidated", "text"}}}

InitRecur ==
  /\ AtRest
  /\ \E event \in RecurEvents : last = Asked("from_ical", event)

\* Event::from_ical to its end
CallFromIcalRrule ==
  /\ last.op = "from_ical" /\ last.status = "asked"
  /\ last' = AnsweredWith("from_ical", last.arg, attach_rrule(last.arg, from_ical(last.arg)))
  /\ UNCHANGED Rest

SpecRecur == InitRecur /\ [][CallFromIcalRrule]_vars

\* -------------------------------------------- files that do not parse
\* Event::from_file on what the file holds: <<>> when the reader finds no
\* calendar in it, <<event>> for a calendar with one VEVENT
from_file_ical(text) ==
  IF text = <<>> THEN Err("InvalidInput") ELSE attach_rrule(text[1], from_ical(text[1]))

\* the Event built at the end of from_ical, for the file of this name
Loaded(name, occurrence) ==
  [uid |-> name.stem, path |-> name, tz |-> occurrence.span.tz, span |-> occurrence.span,
   period |-> IF occurrence.rule = "Recurring" THEN PeriodDays * TicksPerDay ELSE 0]

\* The loop of Calendar::from_dir over the files read_dir yields, from the
\* i-th on; got[i] is what from_file gives for the i-th file: an Err is logged
\* and filtered out, an event is inserted at its start instants inside the
\* window, a panic unwinds.
RECURSIVE LoadTexts(_, _, _, _, _)
LoadTexts(index, dir, got, i, at) ==
  IF i > Len(dir) THEN Ok(index)
  ELSE IF got[i].status = "panic" THEN got[i]
  ELSE IF got[i].status = "err" THEN LoadTexts(index, dir, got, i + 1, at)
  ELSE LoadTexts(InsertAll(index, Windowed(Loaded(dir[i].name, got[i].value), at),
                           Loaded(dir[i].name, got[i].value)),
                 dir, got, i + 1, at)

\* The loop of Calendar::process_external_modifications over a queue of
\* Create items, one for each file of dir, from the i-th on: add_for_path
\* logs an Err of from_file and returns, inserts an event at its start
\* instants inside the window, and a panic unwinds.
RECURSIVE PemCreates(_, _, _, _, _)
PemCreates(index, dir, got, i, at) ==
  IF i > Len(dir) THEN Ok(index)
  ELSE IF got[i].status = "panic" THEN got[i]
  ELSE IF got[i].status = "err" THEN PemCreates(index, dir, got, i + 1, at)
  ELSE PemCreates(InsertAll(index, Windowed(Loaded(dir[i].name, got[i].value), at),
                            Loaded(dir[i].name, got[i].value)),
                  dir, got, i + 1, at)

\* what from_file gives for each file of the directory
FromFiles(dir) == [i \in DOMAIN dir |-> from_file_ical(dir[i].text)]

\* The directories: two files, each without calendar or with one event that
\* starts at a date-time of day 1, in UTC or in the zone with daylight saving
\* time, has no end, a duration that is well formed, malformed or absent, and
\* an RRULE with a rule, without value or absent.
ParseDirs ==
  LET Starts == {<<>>} \cup {<<Property(f, n, FALSE, t)>> :
                               f \in {"datetime", "datetimeZ"}, n \in {2, 3}, t \in {"", "Dst"}}
      NoComponents ==
        [sign |-> <<>>, p |-> TRUE, w |-> <<>>, y |-> <<>>, m |-> <<>>, d |-> <<>>,
         t |-> FALSE, h |-> <<>>, mi |-> <<>>, s |-> <<>>, trail |-> <<>>]
      Durations == {<<>>, <<[value |-> <<[NoComponents EXCEPT !.d = <<"1">>]>>]>>,
                    <<[value |-> <<[NoComponents EXCEPT !.d = <<"X">>]>>]>>}
      Rrules == {<<>>, <<[value |-> <<>>]>>, <<[value |-> <<"rule">>]>>}
      Texts == {<<>>} \cup
               {<<[dtstart |-> b, dtend |-> <<>>, duration |-> d, rrule |-> r]>> :
                  b \in Starts, d \in Durations, r \in Rrules}
      FileNames == <<[stem |-> "u1", ext |-> ICAL_FILE_EXT], [stem |-> "u2", ext |-> ICAL_FILE_EXT]>>
  IN {[i \in 1..2 |-> [name |-> FileNames[i], text |-> t[i]]] : t \in [1..2 -> Texts]}

InitParse ==
  /\ AtRest
  /\ \E dir \in ParseDirs, op \in {"from_dir", "process_external_modifications"} :
       last = Asked(op, dir)

\* Calendar::from_dir on the directory
CallFromDir ==
  /\ last.op = "from_dir" /\ last.status = "asked"
  /\ last' = AnsweredWith(last.op, last.arg,
                           LoadTexts(EmptyIndex, last.arg, FromFiles(last.arg), 1, now))
  /\ UNCHANGED Rest

\* Calendar::process_external_modifications on an empty index with a queue
\* that holds a Create for each file of the directory
CallPemCreates ==
  /\ last.op = "process_external_modifications" /\ last.status = "asked"
  /\ last' = AnsweredWith(last.op, last.arg,
                           PemCreates(EmptyIndex, last.arg, FromFiles(last.arg), 1, now))
  /\ UNCHANGED Rest

SpecParse == InitParse /\ [][CallFromDir \/ CallPemCreates]_vars

\* ------------------------------------------------------ Agenda::find_by_uid
\* The agendas asked: every calendar loaded from a directory that holds any of
\* the fixtures under any of its names.
InitFind ==
  /\ AtRest
  /\ \E dir \in [Cals -> [Names -> ValidContents \cup {NoFile}]], uid \in {"n1", "u1", "u2"} :
       /\ \A c \in Cals : \A n \in Names \ NamesOf(c) : dir[c][n] = NoFile
       /\ \E order \in Orders :
            last = Asked("find_by_uid",
                         [idx |-> [c \in Cals |-> LoadFiles(EmptyIndex, dir[c], order, now)],
                          uid |-> uid])

\* Agenda::find_by_uid
CallFindByUid ==
  /\ last.op = "find_by_uid" /\ last.status = "asked"
  /\ last' = Answered("find_by_uid", last.arg, "ok", find_by_uid(last.arg.idx, last.arg.uid))
  /\ UNCHANGED Rest

SpecFind == InitFind /\ [][CallFindByUid]_vars

\* -------------------------------------------------- Agenda::events_of_month
\* The day numbers of the model are dates of the Gregorian calendar: day
\* FirstDay is 31 January of EpochYear, so the fixtures lie on the last day of
\* January and the first days of February.
EpochYear == 2024

\* chrono: the length of a month
DaysIn(month, year) ==
  CASE month \in {4, 6, 9, 11} -> 30
    [] month = 2 ->
         (IF year % 4 = 0 /\ (year % 100 # 0 \/ year % 400 = 0) THEN 29 ELSE 28)
    [] OTHER -> 31

\* NaiveDate::from_ymd(year, month, 1), for the years from EpochYear on
RECURSIVE from_ymd(_, _)
from_ymd(year, month) ==
  IF month > 1 THEN from_ymd(year, month - 1) + DaysIn(month - 1, year)
  ELSE IF year > EpochYear THEN from_ymd(year - 1, 12) + DaysIn(12, year - 1)
  ELSE FirstDay - 30

\* days_of_month : the first of the next month less the first of this month
days_of_month(month, year) ==
  (IF month = 12 THEN from_ymd(year + 1, 1) ELSE from_ymd(year, month + 1))
    - from_ymd(year, month)

\* begin..end of Agenda::events_of_month : midnight of the first of the month
\* and days_of_month days later
MonthRange(month, year) ==
  RangeOf("Included", from_ymd(year, month) * TicksPerDay,
          "Excluded", (from_ymd(year, month) + days_of_month(month, year)) * TicksPerDay)

\* Agenda::events_of_month : self.events_in(begin..end)
EventsOfMonth(month, year) ==
  /\ pc = "idle" /\ queries > 0
  /\ queries' = queries - 1
  /\ LET got == fetch_maybe_cached(occurrence_cache, events, tz, MonthRange(month, year))
     IN /\ occurrence_cache' = got.cache
        /\ IF got.resolved
             THEN /\ pc' = pc
                  /\ last' = Call("events_of_month", MonthRange(month, year), "ok",
                                  got.lines, got.populated)
             ELSE /\ pc' = "crashed"
                  /\ last' = Call("events_of_month", MonthRange(month, year), "panic",
                                  <<>>, got.populated)
  /\ UNCHANGED <<applied, pemCal, viaLink, now, files, inflight, holding,
                 pending_modifications, event_sink, events, tz, fsOps, jumps>>

\* The Agenda asked for the months around the fixtures and for the last
\* month of the year, over directories that do not change.
Months == {1, 2, 12}
InitMonth == Init /\ queries = MaxQueries /\ viaLink = FALSE

SpecMonth ==
  InitMonth /\ [][FromConfig \/ \E month \in Months : EventsOfMonth(month, EpochYear)]_vars

\* ----------------------------------------------------- Agenda::from_config
\* A configured collection: its provider, whether its path is a directory,
\* its calendar specs {id, name} and, for each entry of the directory in the
\* order read_dir yields them, whether it is a directory ("dir"), a file
\* ("file") or absent ("none").  A calendar is told from the others by the
\* collection it belongs to and its identifier.
Ids == <<"a", "b">>
CalendarSpec(id, name) == [id |-> id, name |-> name]
CollectionSpec(provider, is_dir, calendars, entries) ==
  [provider |-> provider, is_dir |-> is_dir, calendars |-> calendars, entries |-> entries]

\* Calendar::from_dir(path.join(id)) : <<>> for Err (the path is no
\* directory); the calendar is built with friendly_name: String::default()
CalendarFromDir(col, n, id) ==
  IF col.entries[id] = "dir" THEN <<[collection |-> n, id |-> id, friendly_name |-> ""]>>
  ELSE <<>>

\* Calendar::with_name
with_name(calendar, name) == [calendar EXCEPT !.friendly_name = name]

\* Collection::from_dir : every entry of the directory that loads
RECURSIVE CollectionFromDir(_, _, _)
CollectionFromDir(col, n, i) ==
  IF i > Len(Ids) THEN <<>>
  ELSE CalendarFromDir(col, n, Ids[i]) \o CollectionFromDir(col, n, i + 1)

\* the filter_map over the calendar specs in Collection::calendars_from_dir
RECURSIVE FromSpecs(_, _, _)
FromSpecs(col, n, specs) ==
  IF specs = <<>> THEN <<>>
  ELSE (IF CalendarFromDir(col, n, Head(specs).id) # <<>>
          THEN <<with_name(CalendarFromDir(col, n, Head(specs).id)[1], Head(specs).name)>>
          ELSE <<>>)
         \o FromSpecs(col, n, Tail(specs))

\* Collection::calendars_from_dir : Err when the path is no directory, else
\* the calendars of the collection
calendars_from_dir(col, n) ==
  IF ~col.is_dir THEN [status |-> "err", value |-> <<>>]
  ELSE IF col.calendars = <<>>
    THEN [status |-> "ok", value |-> CollectionFromDir(col, n, 1)]
    ELSE [status |-> "ok", value |-> FromSpecs(col, n, col.calendars)]

\* ical::from_dir(path, calendars, ..) : the calendars of the collection at
\* the path, for the calendar specs of the configuration
ical_from_dir(col, n) == calendars_from_dir(col, n)

\* the collections of the "ical" provider that load, their calendars in a row
RECURSIVE LoadedCalendars(_, _)
LoadedCalendars(config, n) ==
  IF n > Len(config) THEN <<>>
  ELSE (IF config[n].provider = "ical" /\ ical_from_dir(config[n], n).status = "ok"
          THEN ical_from_dir(config[n], n).value
          ELSE <<>>)
         \o LoadedCalendars(config, n + 1)

\* .map(|cal| (cal.name().to_owned(), cal)).collect::<BTreeMap<_, _>>() : the
\* pairs are inserted in order, a later pair replaces an earlier one of its key
RECURSIVE Collect(_, _)
Collect(map, cals) ==
  IF cals = <<>> THEN map
  ELSE Collect([k \in DOMAIN map \cup {Head(cals).friendly_name} |->
                  IF k = Head(cals).friendly_name THEN Head(cals) ELSE map[k]],
               Tail(cals))

\* Agenda::from_config : always Ok(Agenda { calendars, .. })
from_config(config) ==
  [status |-> "ok", value |-> Collect([k \in {} |-> <<>>], LoadedCalendars(config, 1))]

\* The configurations: one or two collections; a collection of another
\* provider, one whose path is no directory, or an "ical" directory with
\* entries a and b, each a directory or absent, and with no specs, one spec
\* or two specs of equal or of different names.
Configs ==
  LET Specs == {<<>>, <<CalendarSpec("a", "work")>>,
                <<CalendarSpec("a", "work"), CalendarSpec("b", "work")>>,
                <<CalendarSpec("a", "work"), CalendarSpec("b", "home")>>}
      Dirs == [{"a", "b"} -> {"dir", "none"}]
      Collections ==
        {CollectionSpec("other", TRUE, <<>>, [id \in {"a", "b"} |-> "none"]),
         CollectionSpec("ical", FALSE, <<>>, [id \in {"a", "b"} |-> "none"])}
          \cup {CollectionSpec("ical", TRUE, sp, en) : sp \in Specs, en \in Dirs}
  IN {<<c>> : c \in Collections} \cup {<<c, e>> : c \in Collections, e \in Collections}

InitConfig ==
  /\ AtRest
  /\ \E config \in Configs : last = Asked("from_config", config)

CallFromConfig ==
  /\ last.op = "from_config" /\ last.status = "asked"
  /\ last' = AnsweredWith("from_config", last.arg, from_config(last.arg))
  /\ UNCHANGED Rest

SpecConfig == InitConfig /\ [][CallFromConfig]_vars

\* --------------------------------------------- indexing, instant by instant
\* The chain event.occurrence().iter().skip_while(..).take_while(..).for_each(..)
\* of Calendar::from_dir and add_for_path, one call of OccurrenceIter::next at
\* a time.  `last` holds the event, the number of instants the iterator has
\* yielded, the phase of the chain ("skipping" until skip_while has let an
\* instant through, then "taking"; "done" once for_each has returned) and the
\* instants pushed onto the index.
Indexing(ev, k, phase, pushed) ==
  [op |-> "index", arg |-> [event |-> ev, k |-> k], status |-> phase, out |-> pushed]

\* the instant the next call of OccurrenceIter::next yields, <<>> for None
Yielded == NthStart(last.arg.event, last.arg.k)

\* skip_while drops the instant: it lies before now - 356 days
Skips == last.status = "skipping" /\ Yielded # <<>> /\ Yielded[1] < now - Window

\* the rules indexed: every fixture, once, or repeated without end at one of
\* three intervals; the clock at the day of the fixtures or one or two jumps on
InitIndex ==
  /\ pc = "idle"
  /\ pemCal = 1
  /\ viaLink = FALSE
  /\ \E j \in 0..(MaxJumps + 1) : now = (Today + j * JumpDays) * TicksPerDay
  /\ files = EmptyDisk
  /\ inflight = [c \in Cals |-> <<>>]
  /\ holding = [c \in Cals |-> <<>>]
  /\ pending_modifications = [c \in Cals |-> <<>>]
  /\ event_sink = 0
  /\ events = [c \in Cals |-> EmptyIndex]
  /\ tz = [c \in Cals |-> 0]
  /\ occurrence_cache = EmptyCache
  /\ applied = NoneApplied
  /\ fsOps = 0 /\ queries = 0 /\ jumps = 0
  /\ \E ct \in ValidContents, p \in {0, PeriodDays \div 2, PeriodDays, 2 * PeriodDays} :
       last = Indexing(EventOf(Record(ct.uid, ct.span, p * TicksPerDay), [stem |-> "x", ext |-> "ics"]),
                       0, "skipping", <<>>)

\* .skip_while(|dt| dt < &(now - Duration::days(356))) : the instant is dropped
IterSkip ==
  /\ last.op = "index" /\ Skips
  /\ last' = Indexing(last.arg.event, last.arg.k + 1, "skipping", last.out)
  /\ UNCHANGED Rest

\* .take_while(|dt| dt <= &(now + Duration::days(356))).for_each(push) : the
\* instant is let through and pushed
IterTake ==
  /\ last.op = "index" /\ last.status \in {"skipping", "taking"} /\ ~Skips
  /\ Yielded # <<>> /\ Yielded[1] <= now + Window
  /\ last' = Indexing(last.arg.event, last.arg.k + 1, "taking",
                      last.out \o NthStart(last.arg.event, last.arg.k))
  /\ UNCHANGED Rest

\* a variant that, at the end of the window, waits for a further instant
IterStop_waiting ==
  /\ last.op = "index" /\ last.status \in {"skipping", "taking"} /\ ~Skips
  /\ IF Yielded = <<>> THEN TRUE ELSE Yielded[1] > now + Window
  /\ UNCHANGED vars

\* the iterator is exhausted, or take_while meets the first instant after
\* now + 356 days: the chain ends and for_each returns
IterStop ==
  /\ last.op = "index" /\ last.status \in {"skipping", "taking"} /\ ~Skips
  /\ IF Yielded = <<>> THEN TRUE ELSE Yielded[1] > now + Window
  /\ last' = Indexing(last.arg.event, last.arg.k, "done", last.out)
  /\ UNCHANGED Rest

\* The thread that indexes an event runs the chain without waiting for
\* anything: a call of next that can be made is made (weak fairness).
SpecIndex ==
  InitIndex /\ [][IterSkip \/ IterTake \/ IterStop]_vars
    /\ WF_vars(IterSkip \/ IterTake \/ IterStop)

\* ------------------------------------------------------------------ claims
\* the step is a call of events_in that returns
Returns == last'.op = "events_in" /\ queries' < queries /\ last'.status = "ok"

\* the step is events_in(R) right after a call events_in(R) that returned,
\* with no reconciliation in between
Repeated ==
  /\ last.op = "events_in" /\ last.status = "ok"
  /\ last'.op = "events_in" /\ queries' < queries
  /\ last'.range = last.range

\* C1: Cache idempotence: calling events_in(R) twice, with no reconciliation
\* and no file change in between, returns the same sequence of (UID, TimeSpan)
\* occurrences both times.
C1_CacheIdempotence ==
  [][Repeated => (last'.status = "ok" /\ last'.out = last.out)]_vars

\* the lines of a cache bucket; a date that is no key has none
BucketOf(cache, date) == IF date \in DOMAIN cache THEN cache[date] ELSE <<>>

\* the day slices of the occurrences of calendars c..NumCals, as cache lines
RECURSIVE SlicesFrom(_, _)
SlicesFrom(c, idx) ==
  IF c > NumCals THEN <<>>
  ELSE LET all == FlatEntries(idx[c], Ascending(DOMAIN idx[c]))
           occs == [i \in 1..Len(all) |-> OccurrenceOf(all[i])]
       IN FlatLines([i \in 1..Len(occs) |->
                       [j \in 1..Len(Days(occs[i].span)) |->
                          [uid |-> occs[i].uid, span |-> Days(occs[i].span)[j]]]],
                    [i \in 1..Len(occs) |-> i])
            \o SlicesFrom(c + 1, idx)

\* the day slices, of every occurrence of every calendar, that fall on the date
SlicesOn(idx, date) ==
  SelectSeq(SlicesFrom(1, idx), LAMBDA l : DateNaive(Begin(l.span), l.span.tz) = date)

\* two sequences hold the same elements the same number of times
Count(seq, x) == Cardinality({i \in 1..Len(seq) : seq[i] = x})
SameLines(a, b) ==
  /\ Len(a) = Len(b)
  /\ \A i \in 1..Len(a) : Count(a, a[i]) = Count(b, a[i])

\* the step is a call of events_in that populates the date
Populates(date) ==
  /\ last'.op = "events_in" /\ queries' < queries
  /\ \E i \in 1..Len(last'.populated) : last'.populated[i] = date

\* C2: After the cache populates a date d, the bucket of d holds exactly the
\* day-slices falling on d of every occurrence, from any calendar, whose span
\* intersects the full day d, occurrences that began on an earlier day and
\* still run on d included.
C2_BucketHoldsDaySlices ==
  [][\A d \in 1..MaxDay :
       Populates(d) => SameLines(BucketOf(occurrence_cache', d), SlicesOn(events, d))]_vars

\* the dates a bounded range spans
DatesOf(range) == Date(range.s)..Date(range.e)

\* C3: After events_in(R) returns for a bounded R, every date from R's start
\* date to its end date is a key of the cache, with or without an occurrence
\* on it, so a repeated events_in(R) never calls add_to_cache.
C3_EveryDateCached ==
  [][/\ Returns => \A d \in DatesOf(last'.range) : CacheContains(occurrence_cache', d)
     /\ Repeated => last'.populated = <<>>]_vars

\* ---------------------------------------------------------- reconciliation
\* the step is one turn of the loop of Calendar::process_external_modifications:
\* an item leaves the queue of the calendar the call is at
ItemStep ==
  /\ pc = "pem"
  /\ Len(pending_modifications'[pemCal]) < Len(pending_modifications[pemCal])

\* the step applies an item with this operation
Applying(op) == ItemStep /\ applied'.m.op = op

\* the events of an index as a set
EventsOf(index) == {Entries(index)[i] : i \in 1..Len(Entries(index))}

\* the events of an index that were loaded from the file of this name
LoadedFrom(index, name) == {e \in EventsOf(index) : e.path = name}

\* the part of an index that a predicate on events selects, empty buckets dropped
Restricted(index, Keep(_)) ==
  LET kept == [k \in DOMAIN index |-> SelectSeq(index[k], Keep)]
  IN [k \in {i \in DOMAIN index : kept[i] # <<>>} |-> kept[k]]
From(index, name) == Restricted(index, LAMBDA e : e.path = name)
NotFrom(index, name) == Restricted(index, LAMBDA e : e.path # name)

\* the name of the path encodes the UID of the event
EncodesUidOf(path, e) == uuid_from_path(path) = <<e.uid>>
\* the name of the path encodes no UUID: the match falls back to path equality
FallsBack(path) == uuid_from_path(path) = <<>>

\* the index of the windowed occurrences of what the file holds, nothing else
OccurrencesOfFile(dir, name, t) ==
  add_for_path(EmptyIndex, dir, [name |-> name, canon |-> TRUE], t)

\* the step is a turn of the loop that ends in a panic
Panics == pc' = "crashed" /\ pc # "crashed"

\* C4: given a calendar whose index contains event E loaded from file f, after
\* f is deleted and the queued Remove(f) is applied, no bucket of the index
\* references E any more, whether f's name encodes E's UID or the match falls
\* back to path equality.
C4_RemoveDropsEvent ==
  [][(Applying("Remove") /\ files[pemCal][applied'.m.path.name].kind = "none") =>
       /\ ~Panics
       /\ \A e \in LoadedFrom(events[pemCal], applied'.m.path.name) :
            (EncodesUidOf(applied'.m.path, e) \/ FallsBack(applied'.m.path))
              => e \notin EventsOf(events'[pemCal])]_vars

\* C5: given a calendar whose index contains event E loaded from file f, after
\* f's content is edited and the queued Modify(f) is applied, the index entries
\* of E are exactly the windowed occurrences derived from the new content; no
\* entry derived from the old content remains.
C5_ModifyReplacesEvent ==
  [][(/\ Applying("Modify") /\ applied'.had
      /\ files[pemCal][applied'.m.path.name].kind # "none") =>
       /\ ~Panics
       /\ From(events'[pemCal], applied'.m.path.name)
            = OccurrencesOfFile(files[pemCal], applied'.m.path.name, now)]_vars

\* C6: after a new valid file g is added and the queued Create(g) is applied,
\* the index contains g's windowed occurrences and, for every other event,
\* exactly the same entries at the same instants as before the call.
C6_CreateAddsOnly ==
  [][(/\ Applying("Create") /\ ~applied'.had
      /\ files[pemCal][applied'.m.path.name].kind = "event") =>
       /\ ~Panics
       /\ From(events'[pemCal], applied'.m.path.name)
            = OccurrencesOfFile(files[pemCal], applied'.m.path.name, now)
       /\ NotFrom(events'[pemCal], applied'.m.path.name) = events[pemCal]
       /\ \A c \in Cals \ {pemCal} : events'[c] = events[c]]_vars

\* a Create has added the occurrences of a new file to an index that holds
\* another event
C6_Witness ==
  /\ pc = "pem" /\ applied.m.op = "Create" /\ ~applied.had
  /\ files[applied.cal][applied.m.path.name].kind = "event"
  /\ DOMAIN From(events[applied.cal], applied.m.path.name) # {}
  /\ DOMAIN NotFrom(events[applied.cal], applied.m.path.name) # {}

\* the step is a call of events_in, after a reconciliation, over dates that
\* are all cached already
CachedQueryAfterPem ==
  /\ last.op = "pem"
  /\ last'.op = "events_in" /\ queries' < queries
  /\ Bounded(last'.range.sk) /\ Bounded(last'.range.ek)
  /\ \A d \in DatesOf(last'.range) : CacheContains(occurrence_cache, d)

\* C7: Agenda::process_external_modifications forwards to the reconciliation
\* of every owned calendar and leaves the Occurrence Cache exactly as it was: no
\* cached date is removed, added or rebuilt by it, so a later events_in over an
\* already cached date returns the lines computed before the reconciliation.
C7_ReconciliationKeepsCache ==
  [][/\ (pc = "pem" \/ pc' = "pem") => occurrence_cache' = occurrence_cache
     /\ (pc = "pem" /\ pc' = "idle") => pemCal = NumCals
     /\ CachedQueryAfterPem =>
          /\ last'.status = "ok"
          /\ last'.out = fetch_range(occurrence_cache, Date(last'.range.s),
                                     Date(last'.range.e))]_vars

\* an item of the queue
Item(op, path) == [op |-> op, path |-> path]

\* the step applies `second` right after `first`, both on the path of the
\* item applied, in one call on one calendar
Consecutive(first, second) ==
  /\ ItemStep /\ applied.cal = pemCal
  /\ applied.m.op = first
  /\ applied'.m = Item(second, applied.m.path)

\* C8: process_external_modifications applies the queued items one at a time
\* in the order the watcher enqueued them, each item completely before the
\* next: the resulting index equals the sequential application of every item's
\* effect in enqueue order (Create(p) then Remove(p) leaves no entry for p;
\* Remove(p) then Create(p) leaves p indexed).
C8_ItemsInOrder ==
  [][/\ ItemStep =>
          /\ applied'.m = Head(pending_modifications[pemCal])
          /\ pending_modifications'[pemCal] = Tail(pending_modifications[pemCal])
          /\ ~Panics =>
               events'[pemCal] = ApplyModification(events[pemCal], files[pemCal],
                                                   Head(pending_modifications[pemCal]), now)
     /\ Consecutive("Create", "Remove") =>
          ~Indexed(events'[pemCal], applied'.m.path.name)
     /\ (/\ Consecutive("Remove", "Create")
         /\ DOMAIN OccurrencesOfFile(files[pemCal], applied'.m.path.name, now) # {}) =>
          Indexed(events'[pemCal], applied'.m.path.name)]_vars

\* what applying an item to an index yields: a panic or the next index
Outcome(index, dir, m, t) ==
  IF Unwinds(index, dir, m) THEN <<"panic">> ELSE <<"ok", ApplyModification(index, dir, m, t)>>
Then(outcome, dir, m, t) ==
  IF outcome[1] = "panic" THEN outcome ELSE Outcome(outcome[2], dir, m, t)

\* what the step made of the index of the calendar the call is at
StepOutcome == IF Panics THEN <<"panic">> ELSE <<"ok", events'[pemCal]>>

\* C9: For every index state and every path p, applying Modify(p) yields the
\* same index as applying Remove(p) and then Create(p) on that state.
C9_ModifyIsRemoveThenCreate ==
  [][ItemStep =>
       /\ \A p \in Paths :
            Outcome(events[pemCal], files[pemCal], Item("Modify", p), now)
              = Then(Outcome(events[pemCal], files[pemCal], Item("Remove", p), now),
                     files[pemCal], Item("Create", p), now)
       /\ applied'.m.op = "Modify" =>
            StepOutcome
              = Then(Outcome(events[pemCal], files[pemCal],
                             Item("Remove", applied'.m.path), now),
                     files[pemCal], Item("Create", applied'.m.path), now)]_vars

\* a Modify has replaced the entries of an indexed event by the occurrences of
\* the file
C9_Witness ==
  /\ pc = "pem" /\ applied.m.op = "Modify" /\ applied.had
  /\ files[applied.cal][applied.m.path.name].kind = "event"
  /\ From(events[applied.cal], applied.m.path.name)
       = OccurrencesOfFile(files[applied.cal], applied.m.path.name, now)
  /\ DOMAIN From(events[applied.cal], applied.m.path.name) # {}

\* ---------------------------------------------------------------- watcher
\* a matching path: the name of an .ics file
Matching(path) == path.name.ext = "ics"

\* the item the classification table gives a notification; <<>> for none
Classified(event) ==
  LET first == event.paths[1]
  IN CASE event.kind = "CreateFile" ->
            (IF Matching(first) THEN <<Item("Create", first)>> ELSE <<>>)
       [] event.kind \in {"RemoveFile", "RenameFrom"} ->
            (IF Matching(first) THEN <<Item("Remove", first)>> ELSE <<>>)
       [] event.kind \in {"ModifyData", "RenameTo"} ->
            (IF Matching(first) THEN <<Item("Modify", first)>> ELSE <<>>)
       [] event.kind = "RenameBoth" ->
            (IF Matching(first) THEN <<Item("Remove", first)>>
             ELSE IF Matching(event.paths[2]) THEN <<Item("Modify", event.paths[2])>>
             ELSE <<>>)
       [] OTHER -> <<>>

\* the items a calendar's watcher has classified so far: queued or about to be
Classifieds(c, queue, held) ==
  queue[c] \o [i \in 1..Len(held[c]) |-> held[c][i].m]

\* C10: The watcher classifies every raw notification into at most one queued
\* item: creation of a matching (.ics) file gives Create; deletion or
\* rename-from of a matching file gives Remove; data modification or rename-to
\* of a matching file gives Modify; a rename-both gives Remove(old) if the old
\* name matches, otherwise Modify(new) if the new name matches, otherwise
\* nothing (never Create); a notification on a non-matching path, or of any
\* other kind, queues nothing.
C10_Classification ==
  [][\A c \in Cals :
       IF Len(inflight'[c]) < Len(inflight[c])
         THEN Classifieds(c, pending_modifications', holding')
                = Classifieds(c, pending_modifications, holding)
                    \o Classified(Head(inflight[c]))
         ELSE Classifieds(c, pending_modifications', holding')
                = Classifieds(c, pending_modifications, holding)]_vars

\* the watcher has classified a rename from a non-matching onto a matching
\* name as Modify of the new name
C10_Witness ==
  \E c \in Cals :
    /\ holding[c] # <<>>
    /\ holding[c][1].event.kind = "RenameBoth"
    /\ ~Matching(holding[c][1].event.paths[1])
    /\ holding[c][1].m = Item("Modify", holding[c][1].event.paths[2])

\* ------------------------------------------------------------- concurrency
\* the step is taken by the watcher thread of calendar c: its callback takes
\* up a notification or makes its second send
WatcherStep(c) == Len(inflight'[c]) < Len(inflight[c]) \/ holding'[c] # holding[c]

\* the state the owning thread owns
Owned == <<pc, pemCal, events, tz, occurrence_cache, last, applied, queries>>

\* C11: In every interleaving of the watcher threads with the owning thread,
\* the only effects of a watcher thread are appending to its calendar's queue
\* and sending the 'something changed' signal; the index of a calendar and
\* the Occurrence Cache change only inside operations called by the owning
\* thread (process_external_modifications, events_in).
C11_WatcherOnlyQueues ==
  [][/\ \A c \in Cals :
          WatcherStep(c) =>
            /\ Owned' = Owned
            /\ \A o \in Cals \ {c} : pending_modifications'[o] = pending_modifications[o]
            /\ \/ pending_modifications'[c] = pending_modifications[c]
               \/ \E m \in {Item(op, q) : op \in {"Create", "Remove", "Modify"}, q \in Paths} :
                    pending_modifications'[c] = Append(pending_modifications[c], m)
            /\ event_sink' \in {event_sink, event_sink + 1}
     /\ (Running /\ events' # events) => (pc = "pem" /\ ItemStep)
     /\ occurrence_cache' # occurrence_cache =>
          (pc = "idle" /\ last'.op = "events_in" /\ queries' < queries)]_vars

\* a watcher is between its two sends while the owning thread is inside
\* process_external_modifications and has already applied an item
C11_Witness ==
  /\ pc = "pem" /\ applied.cal # 0
  /\ \E c \in Cals : holding[c] # <<>>
  /\ event_sink > 1

\* ------------------------------------------------------------- termination
\* the owning thread is inside process_external_modifications
InPem == pc = "pem"

InWindow(dt, t) == t - Window <= dt /\ dt <= t + Window

\* the bucket of this key holds nothing that the step has put there
NothingInserted(old, new, k) ==
  /\ k \in DOMAIN old
  /\ Len(new[k]) <= Len(old[k])
  /\ \A i \in 1..Len(new[k]) : \E j \in 1..Len(old[k]) : new[k][i] = old[k][j]

\* C13: Window bound: every index entry, at the moment it is inserted by the
\* load or by a reconciling Create/Modify, lies within [now - 356 days,
\* now + 356 days] of the current time of that insertion; loading a calendar
\* with a recurring event open-ended into the future indexes no occurrence
\* later than 356 days after load time.
C13_WindowBound ==
  [][\A c \in Cals : \A k \in DOMAIN events'[c] :
       \/ InWindow(k, now)
       \/ NothingInserted(events[c], events'[c], k)]_vars

\* the load has indexed more than one occurrence of an event that recurs
\* without end
C13_Witness ==
  /\ pc = "idle" /\ last.op = "from_config"
  /\ \E c \in Cals : \E k \in DOMAIN events[c] :
       /\ events[c][k][1].period # 0
       /\ k > Begin(events[c][k][1].span)

\* a Create or Modify, applied after the clock has moved on, has indexed an
\* occurrence of a recurring event and skipped its first one
C13_LateInsert ==
  /\ pc = "pem" /\ applied.cal # 0 /\ applied.m.op \in {"Create", "Modify"}
  /\ now > Today * TicksPerDay
  /\ \E k \in DOMAIN events[applied.cal] :
       /\ events[applied.cal][k][1].period # 0
       /\ events[applied.cal][k][1].path = applied.m.path.name
       /\ InWindow(k, now)
       /\ ~InWindow(Begin(events[applied.cal][k][1].span), now)

\* ------------------------------------------------------------------ ranges
\* the step is a call of events_in
CallsEventsIn == last'.op = "events_in" /\ queries' < queries

\* the range lacks its start or its end
Open(range) == range.sk = "Unbounded" \/ range.ek = "Unbounded"

\* C14: events_in accepts a range only when both of its endpoints are bounded
\* (included or excluded); with an unbounded start or an unbounded end it
\* fails loudly ('range cannot be cached') and leaves the cache unchanged.
C14_UnboundedRangeFails ==
  [][CallsEventsIn =>
       /\ last'.status = "ok" =>
            (last'.range.sk \in {"Included", "Excluded"}
               /\ last'.range.ek \in {"Included", "Excluded"})
       /\ Open(last'.range) =>
            /\ last'.status = "panic" /\ pc' = "crashed"
            /\ occurrence_cache' = occurrence_cache]_vars

\* events_in has failed on a range without start while the cache held the
\* dates of an earlier call
C14_Witness ==
  /\ pc = "crashed" /\ last.op = "events_in" /\ last.status = "panic"
  /\ last.range.sk = "Unbounded"
  /\ occurrence_cache # EmptyCache

\* events_in has failed on a range without end
C14_WitnessEnd ==
  /\ pc = "crashed" /\ last.op = "events_in" /\ last.status = "panic"
  /\ last.range.ek = "Unbounded"

\* events_in has returned for a range with an excluded bound
C14_WitnessExcluded ==
  /\ pc = "idle" /\ last.op = "events_in" /\ last.status = "ok"
  /\ last.range.ek = "Excluded"

\* -------------------------------------------------------------- day slices
\* the number of calendar days a span touches, from the date of its begin to
\* the date of its end
Touched(ts) == DateNaive(End(ts), ts.tz) - DateNaive(Begin(ts), ts.tz) + 1

\* the instant up to which a slice covers: an all-day slice covers its day up
\* to the next local midnight
Upper(sl) ==
  IF sl.kind = "Allday"
    THEN LocalMidnight((IF sl.z = NoDate THEN sl.a ELSE sl.z) + 1, sl.tz)
    ELSE End(sl)

\* the slices are the day slices of the span
Covers(ts, ds) ==
  LET n == Touched(ts)
      first == DateNaive(Begin(ts), ts.tz)
  IN /\ Len(ds) = n
     /\ \A i \in 1..Len(ds) : DateNaive(Begin(ds[i]), ts.tz) = first + (i - 1)
     /\ n = 1 => ds = <<ts>>
     /\ n > 1 =>
          /\ Begin(ds[1]) = Begin(ts)
          /\ End(ds[Len(ds)]) = End(ts)
          /\ \A i \in 1..(Len(ds) - 1) :
               /\ Upper(ds[i]) = LocalMidnight(first + i, ts.tz)
               /\ Begin(ds[i + 1]) = Upper(ds[i])
          /\ ds[1].kind = "TimePoints" /\ ds[Len(ds)].kind = "TimePoints"
          /\ \A i \in 2..(Len(ds) - 1) : ds[i] = Allday(first + (i - 1), NoDate, ts.tz)

\* C15: Day-slice coverage: for any Occurrence whose span touches N calendar
\* days, days() returns exactly N slices, one per day, whose concatenated
\* coverage equals the original span with no gap and no overlap, with every
\* inner slice boundary exactly at local midnight; when begin and end fall on
\* the same date the single slice is the span unchanged, otherwise the first
\* and last slices are TimePoints and every day strictly between is an Allday
\* slice.
C15_DaySliceCoverage ==
  (last.op = "days" /\ last.status = "ok") => Covers(last.arg, last.out)

\* the same for the spans that are no all-day span with an end date
C15_TimedCoverage ==
  (last.op = "days" /\ last.status = "ok" /\ ~(last.arg.kind = "Allday" /\ last.arg.z # NoDate))
    => Covers(last.arg, last.out)

\* days() has cut a timed span over more than two days
C15_Witness ==
  /\ last.op = "days" /\ last.status = "ok"
  /\ last.arg.kind = "TimePoints" /\ Len(last.out) > 2

\* ---------------------------------------------------------------- durations
\* the number a component of a duration text stands for, 0 when absent
Stands(c) == parse_integer_value(c)

\* the seconds the documented approximation gives a duration text
Documented(in) ==
  (IF in.sign = <<"-">> THEN 0 - 1 ELSE 1)
    * (Stands(in.y) * 360 * 86400 + Stands(in.m) * 30 * 86400 + Stands(in.w) * 7 * 86400
         + Stands(in.d) * 86400 + Stands(in.h) * 3600 + Stands(in.mi) * 60 + Stands(in.s))

\* C17: For every duration string accepted by the grammar, the computed total
\* seconds equals sign x (years x 360 days + months x 30 days + weeks x 7 days
\* + days x 1 day + hours x 3600 + minutes x 60 + seconds), with sign -1 for a
\* leading '-' and +1 otherwise (e.g. P1Y2M3D, PT5H, P2W, -P1D).
C17_DurationSeconds ==
  (last.op = "from_str" /\ last.status = "ok") => last.out.total = Documented(last.arg)

\* the same for the accepted texts that have no days component
C17_WithoutDays ==
  (last.op = "from_str" /\ last.status = "ok" /\ last.arg.d = <<>>)
    => last.out.total = Documented(last.arg)

\* the duration text is malformed in one of the ways named: no 'P', no
\* component at all, a component that is no number, weeks mixed with other
\* components, or trailing text
Malformed(in) ==
  \/ ~in.p
  \/ in.w = <<>> /\ in.y = <<>> /\ in.m = <<>> /\ in.d = <<>> /\ in.h = <<>>
       /\ in.mi = <<>> /\ in.s = <<>>
  \/ in.d = <<"X">>
  \/ in.w # <<>> /\ (in.y # <<>> \/ in.m # <<>> \/ in.d # <<>> \/ in.t \/ in.h # <<>>
                       \/ in.mi # <<>> \/ in.s # <<>>)
  \/ in.trail # <<>>

\* C18: Parsing a malformed duration string fails with a DurationParse error
\* returned to the caller: a string without the 'P' prefix ("1D"), one with
\* no component at all ("P", "PT"), one with a non-numeric component ("PXD"),
\* a weeks-form mixed with other components, or one with trailing text is
\* never accepted as a duration.
C18_MalformedFails ==
  (last.op = "from_str" /\ last.status # "asked" /\ Malformed(last.arg))
    => (last.status = "err" /\ last.out = "DurationParse")

\* a malformed duration text is not accepted, whatever becomes of the call
C18_NeverAccepted ==
  (last.op = "from_str" /\ last.status # "asked" /\ Malformed(last.arg))
    => last.status # "ok"

\* ------------------------------------------------------------------ instants
\* the value of the property has the form its parameters announce: a date
\* under VALUE=DATE, a date-time otherwise, in a zone that exists
WellFormed(prop) ==
  IF prop.valueDate THEN prop.form = "date"
  ELSE prop.form \in {"datetime", "datetimeZ"} /\ prop.tzid \in ZoneNames \cup {""}

\* the instants of the zone at which its clocks show the local time
ValidInstants(zone, local) == {u \in (0 - 1)..MaxLocal : u + Offset(zone, u) = local}

\* the outcome is what the precedence gives the property
ByPrecedence(prop, status, value) ==
  /\ status = "ok"
  /\ IF prop.valueDate THEN value = IcalDateTime("Date", prop.naive \div TicksPerDay, "UTC")
     ELSE IF prop.tzid # ""
       THEN /\ value.kind = "Local" /\ value.zone = prop.tzid
            /\ \A u \in ValidInstants(prop.tzid, prop.naive) : value.at <= u
            /\ ValidInstants(prop.tzid, prop.naive) # {} =>
                 value.at \in ValidInstants(prop.tzid, prop.naive)
     ELSE IF prop.form = "datetimeZ" THEN value = IcalDateTime("Utc", prop.naive, "UTC")
     ELSE value = IcalDateTime("Floating", prop.naive, "UTC")

\* C19: Instant disambiguation follows this precedence for every property
\* value: a VALUE=DATE parameter gives a bare date (even when a TZID is also
\* present); otherwise a TZID parameter gives a zoned instant in that zone,
\* with an ambiguous local time resolving to the earliest valid instant;
\* otherwise a value ending in the UTC marker gives a UTC instant; otherwise
\* the value is a floating instant.
C19_InstantPrecedence ==
  (last.op = "try_from" /\ last.status # "asked" /\ WellFormed(last.arg))
    => ByPrecedence(last.arg, last.status, last.out)

\* the same for the local times that exist in their zone
C19_ExistingLocalTimes ==
  (/\ last.op = "try_from" /\ last.status # "asked" /\ WellFormed(last.arg)
   /\ (last.arg.valueDate \/ last.arg.tzid = ""
         \/ ValidInstants(last.arg.tzid, last.arg.naive) # {}))
    => ByPrecedence(last.arg, last.status, last.out)

\* an ambiguous local time has been resolved
C19_Fold ==
  /\ last.op = "try_from" /\ last.status = "ok" /\ ~last.arg.valueDate
  /\ last.arg.tzid = "Dst" /\ Cardinality(ValidInstants("Dst", last.arg.naive)) = 2

\* ----------------------------------------------------------- parsed spans
\* C16: Span invariant: for every TimeSpan that the parser or days() can
\* construct (Allday with or without end-date, TimePoints from DTSTART/DTEND,
\* Duration from DTSTART plus a parsed duration of either sign, Instant),
\* end() >= begin().
C16_SpanInvariant ==
  (last.op = "from_ical" /\ last.status = "ok") =>
    /\ End(last.out.span) >= Begin(last.out.span)
    /\ \A i \in 1..Len(last.out.days) : End(last.out.days[i]) >= Begin(last.out.days[i])

\* the same for the spans of events whose end is not before their start
C16_ForwardSpans ==
  (last.op = "from_ical" /\ last.status = "ok"
     /\ End(last.out.span) >= Begin(last.out.span)) =>
    \A i \in 1..Len(last.out.days) : End(last.out.days[i]) >= Begin(last.out.days[i])

\* the property is a bare date
BareDate(prop) == try_from(prop[1]).value.kind = "Date"

\* both properties are there and convert
Convert(event) ==
  /\ event.dtstart # <<>> /\ event.dtend # <<>>
  /\ try_from(event.dtstart[1]).status = "ok" /\ try_from(event.dtend[1]).status = "ok"

\* C20: When an explicit end property is present: if the start is a bare date
\* and the end is a bare date the event is the all-day span
\* start-date..end-date; if the start is a bare date but the end is not a
\* bare date the event is rejected with a DateParse error; otherwise the
\* event is a TimePoints span of the two resolved instants.
C20_ExplicitEnd ==
  (last.op = "from_ical" /\ last.status # "asked" /\ Convert(last.arg)) =>
    LET start == try_from(last.arg.dtstart[1]).value
        end == try_from(last.arg.dtend[1]).value
    IN IF BareDate(last.arg.dtstart) /\ BareDate(last.arg.dtend)
         THEN /\ last.status = "ok"
              /\ last.out.span.kind = "Allday"
              /\ last.out.span.a = start.at /\ last.out.span.z = end.at
       ELSE IF BareDate(last.arg.dtstart)
         THEN last.status = "err" /\ last.out = "DateParse"
       ELSE /\ last.status = "ok"
            /\ last.out.span.kind = "TimePoints"
            /\ last.out.span.a = as_datetime(start) /\ last.out.span.z = as_datetime(end)

\* the same for the events whose start and end are of one kind, both bare
\* dates or both instants
C20_SameKind ==
  (/\ last.op = "from_ical" /\ last.status # "asked" /\ Convert(last.arg)
   /\ BareDate(last.arg.dtstart) = BareDate(last.arg.dtend)) =>
    LET start == try_from(last.arg.dtstart[1]).value
        end == try_from(last.arg.dtend[1]).value
    IN IF BareDate(last.arg.dtstart)
         THEN /\ last.status = "ok"
              /\ last.out.span = Allday(start.at, end.at, 0)
       ELSE /\ last.status = "ok"
            /\ last.out.span.kind = "TimePoints"
            /\ last.out.span.a = as_datetime(start) /\ last.out.span.z = as_datetime(end)

\* ------------------------------------------------------------- recurrence
\* the start, end and duration of the event give a span
SpanParses(event) == from_ical(event).status = "ok"

\* the RRULE of the event parses
RruleParses(event) ==
  /\ event.rrule # <<>> /\ event.rrule[1].value # <<>>
  /\ event.rrule[1].value[1] \in {"rule", "unvalidated"}

\* C21: Recurrence attachment: if an RRULE property is present and parses
\* successfully the event's rule is Recurring, anchored at the event's start
\* instant; if the RRULE is absent or unparseable the event is parsed
\* successfully as Onetime with the same span.
C21_RecurrenceAttachment ==
  (last.op = "from_ical" /\ last.status # "asked" /\ "rrule" \in DOMAIN last.arg
     /\ SpanParses(last.arg)) =>
    /\ last.status = "ok"
    /\ last.out.span = from_ical(last.arg).value
    /\ IF RruleParses(last.arg)
         THEN /\ last.out.rule = "Recurring"
              /\ last.out.dt_start = <<Begin(last.out.span)>>
         ELSE last.out.rule = "Onetime"

\* the same for the events whose RRULE, if they have one, has a value that
\* is a valid rule or no rule at all
C21_ValidOrText ==
  (last.op = "from_ical" /\ last.status # "asked" /\ "rrule" \in DOMAIN last.arg
     /\ SpanParses(last.arg)
     /\ (last.arg.rrule = <<>>
           \/ last.arg.rrule[1].value \in {<<"rule">>, <<"text">>})) =>
    /\ last.status = "ok"
    /\ last.out.span = from_ical(last.arg).value
    /\ IF RruleParses(last.arg)
         THEN /\ last.out.rule = "Recurring"
              /\ last.out.dt_start = <<Begin(last.out.span)>>
         ELSE last.out.rule = "Onetime"

\* ------------------------------------------------- files that do not parse
\* a load or a reconciliation of a directory has ended
Loads == last.op \in {"from_dir", "process_external_modifications"} /\ last.status # "asked"

\* the file gives no event: from_file does not return Ok
FailsToParse(file) == from_file_ical(file.text).status # "ok"

\* the call returned and the index holds the files that parse and no other
OthersIndexed ==
  /\ last.status = "ok"
  /\ \A i \in DOMAIN last.arg :
       Indexed(last.out, last.arg[i].name) <=> ~FailsToParse(last.arg[i])

\* C22: A file that fails to parse is local and recoverable in both load and
\* reconciliation: during load the other files of the directory are still
\* indexed and the load succeeds; during process_external_modifications a
\* Create whose file fails to parse adds nothing to the index and the
\* remaining queued items are still applied.
C22_ParseFailureIsLocal ==
  (Loads /\ \E i \in DOMAIN last.arg : FailsToParse(last.arg[i])) => OthersIndexed

\* the same for the directories in which every parse returns, Ok or Err
C22_ReturnedErrors ==
  (/\ Loads /\ \E i \in DOMAIN last.arg : FailsToParse(last.arg[i])
   /\ \A i \in DOMAIN last.arg : from_file_ical(last.arg[i].text).status # "panic") =>
    OthersIndexed

\* a load in which one file returned an error and the other was indexed
C22_OneOfTwo ==
  /\ Loads /\ last.status = "ok"
  /\ \E i, j \in DOMAIN last.arg :
       /\ from_file_ical(last.arg[i].text).status = "err"
       /\ Indexed(last.out, last.arg[j].name)

\* ------------------------------------------------- the calendar's timezone
\* C23: After a calendar is loaded from a directory, the calendar's timezone
\* equals the timezone of the first loaded event; it is UTC only when the
\* directory yields no event.
C23_TimezoneOfFirstEvent ==
  last.op = "from_config" =>
    \A c \in Cals :
      IF DOMAIN events[c] = {} THEN tz[c] = 0
      ELSE tz[c] = from_dir_tz(events[c]) /\ tz[c] = Entries(events[c])[1].tz

\* what the load does instead: every calendar is in UTC, whatever it holds
C23_AlwaysUtc == \A c \in Cals : tz[c] = 0

\* ------------------------------------------------------------- find_by_uid
\* the calendars, by their place in the order of the names, that hold an
\* event with the UID asked for
Holders == {c \in Cals : event_by_uid(last.arg.idx[c], last.arg.uid) # <<>>}

\* C24: find_by_uid(uid) returns the event with that UID from the first
\* calendar, in the Agenda's name-sorted iteration order, that contains it,
\* and returns none exactly when no calendar contains the UID; when several
\* calendars contain the same UID the one in the calendar with the smallest
\* name wins.
C24_FirstCalendarWins ==
  (last.op = "find_by_uid" /\ last.status = "ok") =>
    /\ last.out = <<>> <=> Holders = {}
    /\ Holders # {} =>
         LET first == CHOOSE c \in Holders : \A d \in Holders : c <= d
         IN /\ last.out = event_by_uid(last.arg.idx[first], last.arg.uid)
            /\ last.out[1].uid = last.arg.uid

\* two calendars hold different events with the UID, and the call returned
C24_Witness ==
  /\ last.op = "find_by_uid" /\ last.status = "ok"
  /\ Holders = Cals
  /\ event_by_uid(last.arg.idx[1], last.arg.uid) # event_by_uid(last.arg.idx[NumCals], last.arg.uid)

\* ----------------------------------------------------------- events_of_day
\* events_of_day is called in this step
CallsEventsOfDay == queries' = queries - 1 /\ last'.op = "events_of_day"

\* the occurrences of the index entries of calendar c whose instant lies in
\* the range, read in the timezone of the calendar
InRange(c, range) ==
  UNION {{OccurrenceOf(<<k, events[c][k][i]>>) : i \in 1..Len(events[c][k])} :
           k \in {j \in DOMAIN events[c] : range.s - tz[c] <= j /\ j < range.e - tz[c]}}

\* C25: events_of_day(date) neither reads nor modifies the Occurrence Cache:
\* the cache mapping is identical before and after the call, and the result
\* is computed from the current index of every calendar, so it reflects
\* reconciled changes also when the cache bucket of that date is stale.
C25_EventsOfDayBypassesCache ==
  [][CallsEventsOfDay =>
       /\ occurrence_cache' = occurrence_cache
       /\ {last'.out[i] : i \in 1..Len(last'.out)}
            = UNION {InRange(c, last'.range) : c \in Cals}]_vars

\* events_of_day has answered, after a reconciliation, for a date whose
\* bucket is in the cache, with an event of the calendar's zone that the
\* bucket does not hold
C25_Witness ==
  /\ last.op = "events_of_day" /\ applied.m.op # "None"
  /\ CacheContains(occurrence_cache, Date(last.range.s))
  /\ \E i \in 1..Len(last.out) :
       /\ last.out[i].span.tz = 0
       /\ \A j \in 1..Len(occurrence_cache[Date(last.range.s)]) :
            occurrence_cache[Date(last.range.s)][j].uid # last.out[i].uid

\* the same after a removal: the bucket of the date holds an event that no
\* calendar has any more, and events_of_day returns none
C25_WitnessRemoved ==
  /\ last.op = "events_of_day" /\ applied.m.op = "Remove" /\ last.out = <<>>
  /\ CacheContains(occurrence_cache, Date(last.range.s))
  /\ \E j \in 1..Len(occurrence_cache[Date(last.range.s)]) :
       find_by_uid(events, occurrence_cache[Date(last.range.s)][j].uid) = <<>>

\* --------------------------------------------------------------- end to end
\* a timed event that does not recur and begins and ends on one date of its zone
SingleDay(ev) ==
  /\ ev.period = 0 /\ ev.span.kind # "Allday"
  /\ DateNaive(Begin(ev.span), ev.span.tz) = DateNaive(End(ev.span), ev.span.tz)

\* the Agenda holds one event, in its first calendar, and the event is of
\* this kind
HoldsOne(ev) ==
  /\ Len(Entries(events[1])) = 1 /\ Entries(events[1])[1] = ev
  /\ \A c \in Cals \ {1} : Entries(events[c]) = <<>>

\* events_of_day returns the event once, with its span, for its own date and
\* returns none for every other date
OnItsDateOnly(ev) ==
  IF Date(last'.range.s) = DateNaive(Begin(ev.span), ev.span.tz)
    THEN last'.out = <<[uid |-> ev.uid, span |-> ev.span]>>
    ELSE last'.out = <<>>

\* C26: End-to-end: for a calendar directory with one file containing
\* DTSTART:20240101T090000Z, DTEND:20240101T100000Z and SUMMARY:Standup,
\* events_of_day(2024-01-01) returns exactly one Occurrence, titled 'Standup'
\* and spanning 09:00-10:00 UTC, and events_of_day(2024-01-02) returns none;
\* in general a single-day timed event is returned by events_of_day exactly
\* once for its own date and for no other date.
C26_EndToEnd ==
  [][(CallsEventsOfDay /\ Len(Entries(events[1])) = 1 /\ HoldsOne(Entries(events[1])[1])
        /\ SingleDay(Entries(events[1])[1]))
       => OnItsDateOnly(Entries(events[1])[1])]_vars

\* the same for the events in UTC, as the one of the example is
C26_InUtc ==
  [][(CallsEventsOfDay /\ Len(Entries(events[1])) = 1 /\ HoldsOne(Entries(events[1])[1])
        /\ SingleDay(Entries(events[1])[1]) /\ Entries(events[1])[1].span.tz = 0)
       => OnItsDateOnly(Entries(events[1])[1])]_vars

\* the example: the directory holds Standup alone, and events_of_day has
\* returned it for its date
C26_Standup ==
  /\ last.op = "events_of_day" /\ Date(last.range.s) = FirstDay
  /\ last.out = <<[uid |-> Standup.uid, span |-> Standup.span]>>
  /\ Len(Entries(events[1])) = 1 /\ HoldsOne(EventOf(Standup, Entries(events[1])[1].path))

\* ------------------------------------------------------------ the notifier
\* wait() returns in this step
WaitReturns == Sleeping /\ last'.op = "wait"

\* wait() has returned Restart and main is back at the head of 'outer
Restarted == last.op = "wait" /\ last.status = "Restart"

\* the reconciliation has returned to main, which computes the events next
Reconciled == pc = "idle" /\ last.op = "pem"

\* what a step of the main loop may do: wait returns Restart when it takes a
\* signal and Continue when it takes none; after Restart comes the
\* reconciliation alone; after the reconciliation comes events_in over the
\* check window alone; and a notification is spawned only for the head of
\* the events computed last, after a wait that returned Continue
MainStep ==
  /\ WaitReturns =>
       IF event_sink' = event_sink - 1 THEN last'.status = "Restart"
       ELSE event_sink' = event_sink /\ event_sink = 0 /\ last'.status = "Continue"
  /\ (Restarted /\ last' # last) => (last'.op = "pem" /\ pc' = "pem")
  /\ (last.op = "pem" /\ last' # last) =>
       \/ last'.op = "pem" /\ last'.status = "panic"
       \/ Reconciled /\ last'.op = "events_in" /\ last'.range = CheckWindow
  /\ (last'.op = "spawn_notify" /\ last' # last) =>
       /\ last.op = "wait" /\ last.status = "Continue"
       /\ last'.populated = <<Head(last.out)>>

\* C27: While the notification daemon sleeps in wait() until a headsup time
\* or the end of its check window, receipt of an ExternalModification signal
\* makes wait return Restart, and the main loop then calls
\* process_external_modifications and recomputes the upcoming events before
\* it spawns any further notification; a timeout without a signal makes wait
\* return Continue.  After Restart the reconciliation runs and returns, and
\* the one step main takes then is the computation of the events.
C27_RestartRecomputes == [][MainStep]_vars /\ (Restarted ~> Reconciled)

\* the order alone: no step of the loop leaves it
C27_Order == [][MainStep]_vars

\* after Restart the reconciliation returns to main unless it panics
C27_UnlessPanic == Restarted ~> (Reconciled \/ pc = "crashed")

\* wait has returned Restart with events still to notify
C27_Restart == Restarted /\ event_sink = 0

\* ------------------------------------------------- the order of events_in
\* the calendar whose event an occurrence with this UID carries: the first,
\* in the order of the names, that holds the UID
CalendarOf(uid) ==
  CHOOSE c \in Cals :
    /\ event_by_uid(events[c], uid) # <<>>
    /\ \A d \in Cals : event_by_uid(events[d], uid) # <<>> => c <= d

\* the occurrences of every single calendar are in the order of their begin
SortedWithinCalendars(out) ==
  \A i, j \in 1..Len(out) :
    (i < j /\ CalendarOf(out[i].uid) = CalendarOf(out[j].uid)) =>
      Begin(out[i].span) <= Begin(out[j].span)

\* C28: In the sequence returned by events_in, the occurrences contributed by
\* any single calendar appear in non-decreasing order of begin time; only the
\* merge across calendars is unsorted.
C28_SortedWithinCalendar == [][Returns => SortedWithinCalendars(last'.out)]_vars

\* the same for the calls that found all the dates of the range absent from
\* the cache and no occurrence in a zone other than the calendar's
C28_FreshAndInZone ==
  [][(Returns /\ occurrence_cache = EmptyCache
        /\ \A i \in 1..Len(last'.out) : last'.out[i].span.tz = 0)
       => SortedWithinCalendars(last'.out)]_vars

\* ------------------------------------------- events_in after reconciliation
\* every line the cache holds resolves to an event of some calendar
AllResolve(cache, idx) ==
  \A d \in DOMAIN cache : \A i \in 1..Len(cache[d]) : find_by_uid(idx, cache[d][i].uid) # <<>>

\* C29: For any bounded range, events_in returns normally after any sequence
\* of reconciliations: every (UID, TimeSpan) line held in the cache resolves
\* through find_by_uid to an event at read time, also after a Remove or Modify
\* reconciliation of an event whose dates were cached before.
C29_CachedLinesResolve ==
  [][(CallsEventsIn /\ Bounded(last'.range.sk) /\ Bounded(last'.range.ek)) =>
       /\ last'.status = "ok"
       /\ AllResolve(occurrence_cache', events)]_vars

\* the same for the calls before any reconciliation has removed an event
C29_BeforeRemoval ==
  [][(CallsEventsIn /\ Bounded(last'.range.sk) /\ Bounded(last'.range.ek)
        /\ AllResolve(occurrence_cache, events)) =>
       /\ last'.status = "ok"
       /\ AllResolve(occurrence_cache', events)]_vars

\* ------------------------------------------------------- signal and queue
\* a watcher callback has sent the signal of its notification and has not
\* yet sent the item, or the item waits in the queue of its calendar
Unapplied(c) == holding[c] # <<>> \/ pending_modifications[c] # <<>>

\* C30: Signal and queue ordering: in every interleaving, when the owning
\* thread has received the 'something changed' signal of a watcher
\* notification and then calls process_external_modifications, the
\* Create/Remove/Modify item of that notification is already in the
\* calendar's queue and is applied by that call; no modification stays
\* unapplied after its signal has been handled.  When the reconciliation has
\* returned and every signal sent was received, no item is left.
C30_SignalAfterItem ==
  (Reconciled /\ event_sink = 0) => \A c \in Cals : ~Unapplied(c)

\* the reconciliation has returned, every signal sent was received, and the
\* item of the notification is in the queue, where no signal will follow it
C30_ItemWithoutSignal ==
  /\ Reconciled /\ event_sink = 0
  /\ \A c \in Cals : holding[c] = <<>> /\ inflight[c] = <<>>
  /\ \E c \in Cals : pending_modifications[c] # <<>>
  /\ fsOps = 0

\* ------------------------------------------- events_in and earlier queries
\* what events_in(range) returns on an Agenda over these calendars that was
\* never queried before: fetch_maybe_cached on the empty cache
Unqueried(idx, tzs, range) == fetch_maybe_cached(EmptyCache, idx, tzs, range).lines

\* C31: The result of events_in(R) depends only on the calendars' content and
\* on R, not on the ranges queried before: two Agendas over identical
\* calendars that received different sequences of earlier events_in calls
\* return the same multiset of (UID, TimeSpan) for the same bounded R.  One of
\* the two Agendas is the one that received no earlier call.
C31_HistoryIndependence ==
  [][Returns => SameLines(last'.out, Unqueried(events, tz, last'.range))]_vars

\* the first events_in of an Agenda returns what the Agenda never queried
\* returns, and so does every query of an Agenda whose calendars hold
\* one-day events in UTC only and never changed
OneDayInUtc ==
  \A c \in Cals : \A i \in 1..Len(Entries(events[c])) :
    Entries(events[c])[i].tz = 0 /\ NumDays(Entries(events[c])[i].span) = 1
C31_OneDayInUtc ==
  [][(Returns /\ OneDayInUtc /\ fsOps = MaxFsOps - 1) =>
       SameLines(last'.out, Unqueried(events, tz, last'.range))]_vars

\* ------------------------------------------------- lines of a cache bucket
\* the sequence holds no element twice
NoRepeat(seq) == \A i, j \in 1..Len(seq) : i < j => seq[i] # seq[j]

\* C32: Over any sequence of events_in calls, no cache bucket ever holds two
\* lines with the same UID and the same TimeSpan, so events_in never returns
\* the same day-slice of the same occurrence twice.
C32_NoDuplicateLines ==
  /\ \A d \in DOMAIN occurrence_cache : NoRepeat(occurrence_cache[d])
  /\ (last.op = "events_in" /\ last.status = "ok") => NoRepeat(last.out)

\* the buckets hold no line twice while every indexed event is in UTC and no
\* two calendars hold the same event
NoSharedEvent ==
  \A c, e \in Cals : \A i \in 1..Len(Entries(events[c])) : \A j \in 1..Len(Entries(events[e])) :
    (c # e) => Entries(events[c])[i].uid # Entries(events[e])[j].uid
AllInUtc ==
  \A c \in Cals : \A i \in 1..Len(Entries(events[c])) : Entries(events[c])[i].tz = 0
C32_InUtc ==
  [][(CallsEventsIn /\ fsOps = MaxFsOps - 1 /\ AllInUtc /\ NoSharedEvent
        /\ \A d \in DOMAIN occurrence_cache : NoRepeat(occurrence_cache[d])) =>
       \A d \in DOMAIN occurrence_cache' : NoRepeat(occurrence_cache'[d])]_vars

\* ------------------------------------------------ events of an index bucket
\* the bucket holds two events with this UID
TwiceIn(bucket, uid) ==
  \E i, j \in 1..Len(bucket) : i < j /\ bucket[i].uid = uid /\ bucket[j].uid = uid

\* C33: After any sequence of load and Create/Modify/Remove reconciliations,
\* no index bucket (instant) contains the same event (same UID) more than
\* once; in particular a Create notification for a file that is already
\* indexed does not add a second entry for it.
C33_NoDuplicateEvents ==
  \A c \in Cals : \A k \in DOMAIN events[c] : \A i \in 1..Len(events[c][k]) :
    ~TwiceIn(events[c][k], events[c][k][i].uid)

\* a bucket holds the event of one file twice, the second entry added by the
\* Create item of a notification for that file, which was indexed already
C33_SameFileTwice ==
  /\ pc = "idle" /\ applied.m.op = "Create" /\ applied.had
  /\ \E k \in DOMAIN events[applied.cal] :
       \E i, j \in 1..Len(events[applied.cal][k]) :
         /\ i < j
         /\ events[applied.cal][k][i] = events[applied.cal][k][j]
         /\ events[applied.cal][k][i].path = applied.m.path.name

\* the load alone leaves no event twice in a bucket
C33_AfterLoad ==
  [][(pc = "start" /\ pc' = "idle") =>
       \A c \in Cals : \A k \in DOMAIN events'[c] : \A i \in 1..Len(events'[c][k]) :
         ~TwiceIn(events'[c][k], events'[c][k][i].uid)]_vars

\* ------------------------------------------------------- empty buckets
\* C34: After every Remove or Modify applied by
\* process_external_modifications, the index contains no empty bucket: every
\* instant key of the index maps to at least one event, in every state
\* reachable by load and reconciliation.
C34_NoEmptyBucket ==
  \A c \in Cals : \A k \in DOMAIN events[c] : events[c][k] # <<>>

\* a Remove was applied that took the last event of a bucket: the file was
\* indexed before, and no event of it and no bucket is left in the index
C34_Witness ==
  /\ pc = "idle" /\ applied.m.op = "Remove" /\ applied.had
  /\ events[applied.cal] = EmptyIndex
C34_WitnessModify ==
  /\ pc = "idle" /\ applied.m.op = "Modify" /\ applied.had
  /\ files[applied.cal][applied.m.path.name].kind = "bad"
  /\ events[applied.cal] = EmptyIndex

\* ------------------------------------------------- indexing terminates
\* C35: Indexing an event terminates for every occurrence rule, including a
\* recurrence that is open-ended: load and reconciliation bound the sequence
\* of start instants by the window (skip of instants before now - 356 days,
\* stop at the first instant after now + 356 days), so no consumer iterates
\* an unbounded sequence forever.  The chain ends, and it has pushed the
\* instants of the window.
C35_IndexingTerminates ==
  <>(last.status = "done" /\ last.out = Windowed(last.arg.event, now))

\* the chain ended on an open-ended rule, after it skipped instants before
\* the window and pushed instants of the window
C35_Witness ==
  /\ last.op = "index" /\ last.status = "done"
  /\ last.arg.event.period # 0
  /\ last.out # <<>>
  /\ last.arg.k > Len(last.out)

\* every instant pushed lies in the window, and the iterator was asked for
\* one instant more than the chain skipped and pushed at most
C35_Bounded ==
  (last.op = "index") =>
    /\ \A i \in 1..Len(last.out) : now - Window <= last.out[i] /\ last.out[i] <= now + Window
    /\ last.arg.event.period # 0 =>
         last.arg.k * last.arg.event.period <= now + Window - Begin(last.arg.event.span) + last.arg.event.period

\* ------------------------------------------------------- events_of_month
\* the step is a call of events_of_month that returns
MonthReturns == last'.op = "events_of_month" /\ queries' < queries /\ last'.status = "ok"

\* the date of a day slice: the date of its begin in the zone of the event
SliceDate(line) == DateNaive(Begin(line.span), line.span.tz)

\* C36: events_of_month(month, year) returns only occurrences whose day-slice
\* date lies in that month of that year: none dated in the previous month and
\* none dated the first day of the following month.
C36_OnlyThatMonth ==
  [][MonthReturns =>
       \A i \in 1..Len(last'.out) :
         /\ Date(last'.range.s) <= SliceDate(last'.out[i])
         /\ SliceDate(last'.out[i]) < Date(last'.range.e)]_vars

\* none is dated before the month and none after the first day of the
\* following month
C36_UpToFirstOfNext ==
  [][MonthReturns =>
       \A i \in 1..Len(last'.out) :
         /\ Date(last'.range.s) <= SliceDate(last'.out[i])
         /\ SliceDate(last'.out[i]) <= Date(last'.range.e)]_vars

\* the months are those of the Gregorian calendar
C36_Months ==
  /\ days_of_month(1, EpochYear) = 31 /\ days_of_month(2, EpochYear) = 29
  /\ days_of_month(12, EpochYear) = 31 /\ days_of_month(2, EpochYear + 1) = 28
  /\ from_ymd(EpochYear, 2) = FirstDay + 1

\* events_of_month(January) returned an event of 1 February
C36_FirstOfFebruary ==
  /\ last.op = "events_of_month" /\ last.status = "ok"
  /\ last.range = MonthRange(1, EpochYear)
  /\ \E i \in 1..Len(last.out) : SliceDate(last.out[i]) = from_ymd(EpochYear, 2)

\* ----------------------------------------------- the calendars of the Agenda
\* the calendar, under whatever name, is a value of the mapping
Present(map, calendar) ==
  \E name \in DOMAIN map :
    map[name].collection = calendar.collection /\ map[name].id = calendar.id

\* from_config has returned
Configured == last.op = "from_config" /\ last.status # "asked"

\* C37: Every calendar that loads successfully from a configured 'ical'
\* collection is present in the Agenda's name-keyed mapping after
\* from_config, also when two calendars carry the same name or no name; a
\* collection that fails to load is omitted without failing from_config.
C37_EveryCalendarPresent ==
  Configured =>
    /\ last.status = "ok"
    /\ \A i \in 1..Len(LoadedCalendars(last.arg, 1)) :
         Present(last.out, LoadedCalendars(last.arg, 1)[i])

\* from_config returns Ok whatever collection fails, its mapping holds
\* calendars that loaded only, and it holds them all when their names differ
DistinctNames(cals) ==
  \A i, j \in 1..Len(cals) : i # j => cals[i].friendly_name # cals[j].friendly_name
C37_WhenNamesDiffer ==
  Configured =>
    /\ last.status = "ok"
    /\ \A name \in DOMAIN last.out :
         \E i \in 1..Len(LoadedCalendars(last.arg, 1)) :
           LoadedCalendars(last.arg, 1)[i] = last.out[name]
    /\ DistinctNames(LoadedCalendars(last.arg, 1)) =>
         \A i \in 1..Len(LoadedCalendars(last.arg, 1)) :
           Present(last.out, LoadedCalendars(last.arg, 1)[i])

\* two calendars were discovered in one directory, both without a name, and
\* the mapping holds one calendar
C37_OneOfTwoUnnamed ==
  /\ Configured /\ Len(last.arg) = 1
  /\ last.arg[1].calendars = <<>>
  /\ Len(LoadedCalendars(last.arg, 1)) = 2
  /\ Cardinality(DOMAIN last.out) = 1

\* a collection failed to load, from_config returned Ok and the mapping
\* holds the calendar of the other collection
C37_FailedCollectionOmitted ==
  /\ Configured /\ last.status = "ok" /\ Len(last.arg) = 2
  /\ last.arg[1].provider = "ical" /\ ~last.arg[1].is_dir
  /\ Cardinality(DOMAIN last.out) = 1

\* ------------------------------------------------- notified at most once
\* spawn_notify has just been called for this occurrence
Notified(o) == last.op = "spawn_notify" /\ last.populated = <<o>>

\* the day slices of the first occurrence of every fixture
FixtureSlices ==
  UNION {{[uid |-> ct.uid, span |-> Days(ct.span)[i]] : i \in 1..Len(Days(ct.span))} :
           ct \in ValidContents}

\* the step is a call of spawn_notify, and no event still to notify in this
\* window begins before the one notified
InOrder ==
  (last'.op = "spawn_notify" /\ last' # last) =>
    \A i \in 1..Len(last'.out) :
      Begin(last'.populated[1].span) <= Begin(last'.out[i].span)

\* C38: Across the whole run of the notification daemon (consecutive check
\* windows and restarts caused by an ExternalModification signal),
\* spawn_notify is called at most once for each occurrence, and the
\* occurrences of one window are notified in ascending order of begin time.
\* Once an occurrence was notified and the loop has gone on, it is never
\* notified again.
C38_NotifiedOnce ==
  /\ [][InOrder]_vars
  /\ \A o \in FixtureSlices : [](Notified(o) => [](~Notified(o) => []~Notified(o)))

\* the occurrences of one window are notified in ascending order of begin
C38_InOrder == [][InOrder]_vars

\* ---------------------------------------------------- TimeSpan::duration
\* TimeSpan::duration : an all-day span without end date lasts 24 hours, one
\* with an end date the difference of its two dates; TimePoints the difference
\* of its two instants; a Duration its length; an Instant nothing.
duration(ts) ==
  CASE ts.kind = "Allday" ->
         IF ts.z = NoDate THEN TicksPerDay ELSE (ts.z - ts.a) * TicksPerDay
    [] ts.kind = "TimePoints" -> ts.z - ts.a
    [] ts.kind = "Duration" -> ts.z
    [] OTHER -> 0

InitSpan ==
  /\ AtRest
  /\ \E ts \in {sp \in Spans : Begin(sp) <= End(sp)} : last = Asked("duration", ts)

\* spawn_notify reads begin() and duration() of the occurrence's span
CallDuration ==
  /\ last.op = "duration" /\ last.status = "asked"
  /\ last' = Answered("duration", last.arg, "ok", duration(last.arg))
  /\ UNCHANGED Rest

SpecSpan == InitSpan /\ [][CallDuration]_vars

\* ------------------------------------------- duration is end less begin
DurationReturned == last.op = "duration" /\ last.status = "ok"

\* C39: for every TimeSpan variant, also an all-day span with or without end
\* date, duration() is end() less begin().
C39_DurationIsEndLessBegin ==
  DurationReturned => last.out = End(last.arg) - Begin(last.arg)

\* for the three timed variants, TimePoints, Duration and Instant, it is
C39_TimedVariants ==
  DurationReturned /\ last.arg.kind # "Allday"
    => last.out = End(last.arg) - Begin(last.arg)

\* for an all-day span duration() is one tick, the last second of the last
\* day, longer than end() less begin() when there is no end date, and a whole
\* day less one tick shorter when there is one
C39_Allday ==
  DurationReturned /\ last.arg.kind = "Allday"
    => last.out = IF last.arg.z = NoDate
                  THEN End(last.arg) - Begin(last.arg) + 1
                  ELSE End(last.arg) - Begin(last.arg) - (TicksPerDay - 1)

\* an all-day span without end date has been measured: 24 hours
C39_AlldayWithoutEnd ==
  DurationReturned /\ last.arg.kind = "Allday" /\ last.arg.z = NoDate
    /\ last.out = TicksPerDay

\* an all-day span of two days, its end date inclusive, has been measured
C39_AlldayWithEnd ==
  DurationReturned /\ last.arg.kind = "Allday" /\ last.arg.z = last.arg.a + 1


====
